---- MODULE Spec2Model ----
(***************************************************************************)
(* Model of gh-custom-roles `create` (cmd/create.go, cmd/root.go): the     *)
(* batch execution engine of runCreate in its two strategies (sequential   *)
(* loop with delay, worker goroutines behind a channel semaphore and a     *)
(* mutex), together with roleExists, createCustomRole and isNotFoundError. *)
(* Strings are sequences of one-character strings so that ToLower,         *)
(* TrimSpace and Contains are computed, not assumed.                       *)
(***************************************************************************)
EXTENDS Integers, Sequences, FiniteSets, TLC

(* ------------------------------ bounds --------------------------------- *)
MaxOrgs == 2
MaxConc == 2
MaxDelay == 1
MaxFaults == 1
MaxQueries == 4

(* ------------------------- program constants --------------------------- *)
MinConcurrency == 1
MaxConcurrency == 20
DefaultConcurrency == 1
DefaultDelay == 0

Nil == <<"<nil>">>
Pending == "pending"

(* ------------------------------ strings -------------------------------- *)
Upper == <<"A","B","C","D","E","F","G","H","I","J","K","L","M",
           "N","O","P","Q","R","S","T","U","V","W","X","Y","Z">>
Lower == <<"a","b","c","d","e","f","g","h","i","j","k","l","m",
           "n","o","p","q","r","s","t","u","v","w","x","y","z">>

ToLowerChar(c) ==
    IF \E j \in 1..Len(Upper) : Upper[j] = c
    THEN Lower[CHOOSE j \in 1..Len(Upper) : Upper[j] = c]
    ELSE c

ToLower(s) == [j \in 1..Len(s) |-> ToLowerChar(s[j])]

RECURSIVE TrimLeft(_)
TrimLeft(s) ==
    IF s # <<>> /\ Head(s) = " " THEN TrimLeft(Tail(s)) ELSE s

RECURSIVE TrimRight(_)
TrimRight(s) ==
    IF s # <<>> /\ s[Len(s)] = " " THEN TrimRight(SubSeq(s, 1, Len(s) - 1)) ELSE s

TrimSpace(s) == TrimRight(TrimLeft(s))

Contains(s, sub) ==
    \E j \in 1..(Len(s) - Len(sub) + 1) : SubSeq(s, j, j + Len(sub) - 1) = sub

Str404 ==
    <<"4","0","4">>
StrNotFound ==
    <<"n","o","t"," ","f","o","u","n","d">>
LookupPrefix ==
    <<"c","u","s","t","o","m"," ","r","o","l","e"," ","l","o","o","k","u","p"," ","f","a","i","l","e","d",":"," ">>
CreatePrefix ==
    <<"c","r","e","a","t","e"," ","r","o","l","e"," ","f","a","i","l","e","d",":"," ">>
OpenParen ==
    <<" ","(">>
CloseParen ==
    <<")">>
ExitStatus1 ==
    <<"e","x","i","t"," ","s","t","a","t","u","s"," ","1">>
StderrNotFound ==
    <<"g","h",":"," ","N","o","t"," ","F","o","u","n","d"," ","(","H","T","T","P"," ","4","0","4",")">>
StderrBadCredentials ==
    <<"g","h",":"," ","B","a","d"," ","c","r","e","d","e","n","t","i","a","l","s"," ","(","H","T","T","P"," ","4","0","1",")">>
ErrNoExecutable ==
    <<"e","x","e","c",":"," ","g","h",":"," ","e","x","e","c","u","t","a","b","l","e"," ","f","i","l","e"," ","n","o","t"," ","f","o","u","n","d"," ","i","n"," ","$","P","A","T","H">>
ErrJSONSyntax ==
    <<"u","n","e","x","p","e","c","t","e","d"," ","e","n","d"," ","o","f"," ","J","S","O","N"," ","i","n","p","u","t">>
RoleNameFlag ==
    <<"D","e","v"," ">>
RoleDev ==
    <<"D","e","v">>
RoleOps ==
    <<"o","p","s">>
RoleDevUpper ==
    <<"D","E","V">>

(* ------------------------- the remote (gh api) ------------------------- *)
(* What one `gh api` call can answer.  The identifiers name the answer; the *)
(* record is what gh.Exec hands back: the error, stderr and the body.       *)
ExistsAnswers == {"roles_other", "roles_match"}
ExistsFaults == {"http_404", "http_401", "no_exec", "bad_json"}
CreateAnswers == {"created"}
CreateFaults == {"http_404", "http_401", "no_exec"}

Unparsable == <<"<html>">>

ghAPI(r) ==
    CASE r = "roles_other" -> [err |-> Nil, stderr |-> <<>>, body |-> <<RoleOps>>]
      [] r = "roles_match" -> [err |-> Nil, stderr |-> <<>>, body |-> <<RoleOps, RoleDevUpper>>]
      [] r = "created"     -> [err |-> Nil, stderr |-> <<>>, body |-> <<>>]
      [] r = "bad_json"    -> [err |-> Nil, stderr |-> <<>>, body |-> Unparsable]
      [] r = "http_404"    -> [err |-> ExitStatus1, stderr |-> StderrNotFound, body |-> <<>>]
      [] r = "http_401"    -> [err |-> ExitStatus1, stderr |-> StderrBadCredentials, body |-> <<>>]
      [] r = "no_exec"     -> [err |-> ErrNoExecutable, stderr |-> <<>>, body |-> <<>>]

(* The role listing of an org in which this command has created the role:  *)
(* the roles there were and the new one, under the name sent with the      *)
(* create call (`"name=" + name`).                                         *)
Stored == "roles_stored"

ExistsReply(r, name) ==
    IF r = Stored
    THEN [err |-> Nil, stderr |-> <<>>, body |-> <<RoleOps, name>>]
    ELSE ghAPI(r)

(* What really went wrong in an answer, as the remote knows it. *)
Cause(r) ==
    CASE r = "http_404" -> "target_not_found"
      [] r = "http_401" -> "auth"
      [] r = "no_exec"  -> "transport"
      [] r = "bad_json" -> "parse"
      [] OTHER          -> "none"

(* ------------------------- pure functions ------------------------------ *)
isNotFoundError(err) ==
    IF err = Nil THEN FALSE
    ELSE LET errorText == ToLower(err)
         IN Contains(errorText, Str404) \/ Contains(errorText, StrNotFound)

roleExists(response, wanted) ==
    IF response.err # Nil
    THEN [exists |-> FALSE,
          err |-> LookupPrefix \o response.err \o OpenParen \o response.stderr \o CloseParen]
    ELSE IF response.body = Unparsable
    THEN [exists |-> FALSE, err |-> ErrJSONSyntax]
    ELSE LET name == ToLower(TrimSpace(wanted))
         IN [exists |-> \E j \in 1..Len(response.body) : ToLower(response.body[j]) = name,
             err |-> Nil]

createCustomRole(response) ==
    IF response.err # Nil
    THEN CreatePrefix \o response.err \o OpenParen \o response.stderr \o CloseParen
    ELSE Nil

(* The branch taken after roleExists in the sequential loop: the counter   *)
(* to increment, or "create" to go on to createCustomRole.                 *)
SeqAfterExists(res) ==
    IF res.err # Nil
    THEN IF isNotFoundError(res.err) THEN "warning" ELSE "error"
    ELSE IF res.exists THEN "warning" ELSE "create"

(* variant: the sequential loop does not look for a not-found create error *)
SeqAfterCreate_NotFoundIsError(createErr) ==
    IF createErr # Nil THEN "error" ELSE "success"

SeqAfterCreate(createErr) ==
    IF createErr # Nil
    THEN IF isNotFoundError(createErr) THEN "warning" ELSE "error"
    ELSE "success"

(* The same two decisions as written in the worker goroutine. *)
(* variant: the goroutine forgets the `if exists` branch *)
ConcAfterExists_IgnoresExists(res) ==
    IF res.err # Nil
    THEN IF isNotFoundError(res.err) THEN "warning" ELSE "error"
    ELSE "create"

ConcAfterExists(res) ==
    IF res.err # Nil
    THEN IF isNotFoundError(res.err) THEN "warning" ELSE "error"
    ELSE IF res.exists THEN "warning" ELSE "create"

(* variant: the goroutine does not look for a not-found create error *)
ConcAfterCreate_NotFoundIsError(createErr) ==
    IF createErr # Nil THEN "error" ELSE "success"

ConcAfterCreate(createErr) ==
    IF createErr # Nil
    THEN IF isNotFoundError(createErr) THEN "warning" ELSE "error"
    ELSE "success"

(* The role name given with --role-name, and the decisions above tabulated *)
(* over the answers of the remote.                                         *)
SeqExistsBranch ==
    [r \in ExistsAnswers \cup ExistsFaults \cup {Stored} |->
       [name \in {RoleDev, RoleNameFlag} |->
          SeqAfterExists(roleExists(ExistsReply(r, name), name))]]
SeqCreateBranch ==
    [r \in CreateAnswers \cup CreateFaults |-> SeqAfterCreate(createCustomRole(ghAPI(r)))]
ConcExistsBranch ==
    [r \in ExistsAnswers \cup ExistsFaults \cup {Stored} |->
       [name \in {RoleDev, RoleNameFlag} |->
          ConcAfterExists(roleExists(ExistsReply(r, name), name))]]
ConcCreateBranch ==
    [r \in CreateAnswers \cup CreateFaults |-> ConcAfterCreate(createCustomRole(ghAPI(r)))]

(* --------------------- inputs of the setup ----------------------------- *)
Blank ==
    <<" ">>
OrgA ==
    <<"O","r","g","A">>
OrgALower ==
    <<"o","r","g","a">>
OrgAPadded ==
    <<" ","o","r","g","a"," ">>
OrgBLower ==
    <<"o","r","g","b">>
OrgB ==
    <<"O","r","g","B">>
BaseRead ==
    <<"r","e","a","d">>
BaseTriage ==
    <<"t","r","i","a","g","e">>
BaseWrite ==
    <<"w","r","i","t","e">>
BaseMaintain ==
    <<"m","a","i","n","t","a","i","n">>
BaseWriteFlag ==
    <<" ","W","r","i","t","e">>
BaseAdminFlag ==
    <<"a","d","m","i","n">>
PermReadCode ==
    <<"r","e","a","d","_","c","o","d","e">>
PermWriteCode ==
    <<"w","r","i","t","e","_","c","o","d","e">>
PermFlagBogus ==
    <<"r","e","a","d","_","c","o","d","e",",","b","o","g","u","s","_","p","e","r","m","i","s","s","i","o","n">>
PermFlagSpaced ==
    <<" ","r","e","a","d","_","c","o","d","e"," ",","," ",",","r","e","a","d","_","c","o","d","e">>
PermFlagCommas ==
    <<" ",","," ">>

(* An organization login that differs for every k. *)
Login(k) == <<"O", "r", "g", ToString(k)>>

(* ------------------- pure functions of the setup ----------------------- *)
(* variant: the name is trimmed but keeps its case *)
normalizeOrg_KeepsCase(org) == TrimSpace(org)

normalizeOrg(org) == ToLower(TrimSpace(org))

(* variant: blank values are dropped, repeated ones are kept *)
uniqueStrings_KeepsRepeated(values) == SelectSeq(values, LAMBDA value : value # <<>>)

(* uniqueStrings: the loop `for _, value := range values` over the values *)
(* numbered lo..hi, with the map seen and the slice result.              *)
RECURSIVE uniqueStringsLoop(_, _, _, _)
uniqueStringsLoop(values, lo, hi, acc) ==
    IF lo > hi THEN acc
    ELSE IF values[lo] = <<>> \/ values[lo] \in acc.seen
    THEN uniqueStringsLoop(values, lo + 1, hi, acc)
    ELSE uniqueStringsLoop(values, lo + 1, hi,
                           [seen |-> acc.seen \cup {values[lo]},
                            result |-> Append(acc.result, values[lo])])

(* The same loop run sixteen values at a time, one stretch after another. *)
RECURSIVE uniqueStringsFrom(_, _, _)
uniqueStringsFrom(values, lo, acc) ==
    IF lo > Len(values) THEN acc
    ELSE LET hi == IF lo + 15 > Len(values) THEN Len(values) ELSE lo + 15
         IN uniqueStringsFrom(values, hi + 1, uniqueStringsLoop(values, lo, hi, acc))

uniqueStrings(values) ==
    uniqueStringsFrom(values, 1, [seen |-> {}, result |-> <<>>]).result

(* loadOrganizationsFromCSV: `for _, value := range record` *)
RECURSIVE csvValues(_, _)
csvValues(record, acc) ==
    IF record = <<>> THEN acc
    ELSE LET org == normalizeOrg(Head(record)) IN
         csvValues(Tail(record),
                   IF org = <<>> \/ org \in acc.orgSet
                   THEN acc
                   ELSE [orgSet |-> acc.orgSet \cup {org}, orgs |-> Append(acc.orgs, org)])

(* loadOrganizationsFromCSV: `for _, record := range records` *)
RECURSIVE csvRecords(_, _)
csvRecords(records, acc) ==
    IF records = <<>> THEN acc
    ELSE csvRecords(Tail(records), csvValues(Head(records), acc))

(* file is what os.Open and csv.ReadAll make of the path: "missing",       *)
(* "malformed", or "readable" with the records read.                       *)
loadOrganizationsFromCSV(file, records) ==
    IF file # "readable"
    THEN [orgs |-> <<>>, err |-> file]
    ELSE [orgs |-> csvRecords(records, [orgSet |-> {}, orgs |-> <<>>]).orgs, err |-> "none"]

BaseRoleOptions == <<BaseRead, BaseTriage, BaseWrite, BaseMaintain>>

(* resolveBaseRole with the flag given; with no flag the choice is made at *)
(* the prompt.                                                             *)
resolveBaseRole(value) ==
    LET b == ToLower(TrimSpace(value)) IN
    IF \E j \in 1..Len(BaseRoleOptions) : BaseRoleOptions[j] = b
    THEN [role |-> b, err |-> "none"]
    ELSE [role |-> <<>>, err |-> "invalid base role"]

(* strings.Split(s, ",") *)
RECURSIVE SplitLoop(_, _, _)
SplitLoop(s, cur, res) ==
    IF s = <<>> THEN Append(res, cur)
    ELSE IF Head(s) = "," THEN SplitLoop(Tail(s), <<>>, Append(res, cur))
    ELSE SplitLoop(Tail(s), Append(cur, Head(s)), res)

Split(s) == SplitLoop(s, <<>>, <<>>)

(* resolvePermissions, the loop over the items of the flag *)
RECURSIVE selectItems(_, _, _)
selectItems(items, permissionMap, selected) ==
    IF items = <<>> THEN [selected |-> selected, err |-> "none"]
    ELSE LET name == TrimSpace(Head(items)) IN
         IF name = <<>> THEN selectItems(Tail(items), permissionMap, selected)
         ELSE IF name \notin permissionMap
         THEN [selected |-> <<>>, err |-> "unknown permission"]
         ELSE selectItems(Tail(items), permissionMap, Append(selected, name))

(* resolvePermissions; selection is what the user ticks when no flag is     *)
(* given.                                                                  *)
resolvePermissions(flagValue, available, selection) ==
    IF Len(available) = 0
    THEN [selected |-> <<>>, err |-> "no permissions available"]
    ELSE LET permissionMap == {available[j] : j \in 1..Len(available)} IN
         IF TrimSpace(flagValue) # <<>>
         THEN LET r == selectItems(Split(flagValue), permissionMap, <<>>) IN
              IF r.err # "none" THEN r
              ELSE IF Len(r.selected) = 0
              THEN [selected |-> <<>>, err |-> "permissions are required"]
              ELSE [selected |-> uniqueStrings(r.selected), err |-> "none"]
         ELSE IF Len(selection) = 0
         THEN [selected |-> <<>>, err |-> "permissions are required"]
         ELSE [selected |-> uniqueStrings(selection), err |-> "none"]

(* ------------------ the replication command ---------------------------- *)
(* The words of the command line and values an option can have. *)
CmdPrefix ==
    <<"g","h"," ","c","u","s","t","o","m","-","r","o","l","e","s"," ","c","r","e","a","t","e">>
WordGh ==
    <<"g","h">>
WordCustomRoles ==
    <<"c","u","s","t","o","m","-","r","o","l","e","s">>
WordCreate ==
    <<"c","r","e","a","t","e">>
FlagHostname ==
    <<"-","-","h","o","s","t","n","a","m","e">>
FlagEnterprise ==
    <<"-","-","e","n","t","e","r","p","r","i","s","e">>
FlagOrg ==
    <<"-","-","o","r","g">>
FlagAllOrgs ==
    <<"-","-","a","l","l","-","o","r","g","s">>
FlagOrgsCSV ==
    <<"-","-","o","r","g","s","-","c","s","v">>
FlagRoleName ==
    <<"-","-","r","o","l","e","-","n","a","m","e">>
FlagRoleDescription ==
    <<"-","-","r","o","l","e","-","d","e","s","c","r","i","p","t","i","o","n">>
FlagBaseRole ==
    <<"-","-","b","a","s","e","-","r","o","l","e">>
FlagPermissions ==
    <<"-","-","p","e","r","m","i","s","s","i","o","n","s">>
FlagDelay ==
    <<"-","-","d","e","l","a","y">>
FlagConcurrency ==
    <<"-","-","c","o","n","c","u","r","r","e","n","c","y">>
HostGitHub ==
    <<"g","i","t","h","u","b",".","c","o","m">>
EnterpriseAcme ==
    <<"a","c","m","e">>
PathOrgsCSV ==
    <<"o","r","g","s",".","c","s","v">>
PathWithSpace ==
    <<"m","y"," ","o","r","g","s",".","c","s","v">>
RoleWithSpace ==
    <<"D","e","v"," ","O","p","s">>
DescWithSpaces ==
    <<"m","a","y"," ","t","r","i","a","g","e">>
DescWithApostrophe ==
    <<"c","a","n","'","t"," ","m","e","r","g","e">>
Space == <<" ">>
Quote == <<"'">>
Comma == <<",">>
Digits == <<"0","1","2","3","4","5","6","7","8","9">>

(* fmt.Sprintf("%d", n) for the numbers a strategy flag can hold *)
Itoa(n) ==
    IF n < 10 THEN <<Digits[n + 1]>>
    ELSE <<Digits[(n \div 10) + 1], Digits[(n % 10) + 1]>>

(* strings.Join(elems, ",") *)
RECURSIVE Join(_)
Join(elems) ==
    IF elems = <<>> THEN <<>>
    ELSE IF Len(elems) = 1 THEN Head(elems)
    ELSE Head(elems) \o Comma \o Join(Tail(elems))

(* buildReplicationCommand(opts, baseRole, permissions) *)
buildReplicationCommand(o, base, perms) ==
    CmdPrefix
    \o (IF o.hostname # <<>> THEN Space \o FlagHostname \o Space \o o.hostname ELSE <<>>)
    \o (IF o.enterprise # <<>> THEN Space \o FlagEnterprise \o Space \o o.enterprise
        ELSE <<>>)
    \o (IF o.org # <<>> THEN Space \o FlagOrg \o Space \o o.org
        ELSE IF o.allOrgs THEN Space \o FlagAllOrgs
        ELSE IF o.orgsCSVPath # <<>> THEN Space \o FlagOrgsCSV \o Space \o o.orgsCSVPath
        ELSE <<>>)
    \o (IF o.roleName # <<>>
        THEN Space \o FlagRoleName \o Space \o Quote \o o.roleName \o Quote ELSE <<>>)
    \o (IF o.roleDesc # <<>>
        THEN Space \o FlagRoleDescription \o Space \o Quote \o o.roleDesc \o Quote
        ELSE <<>>)
    \o (IF base # <<>> THEN Space \o FlagBaseRole \o Space \o base ELSE <<>>)
    \o (IF Len(perms) > 0 THEN Space \o FlagPermissions \o Space \o Join(perms) ELSE <<>>)
    \o (IF o.delay > 0 THEN Space \o FlagDelay \o Space \o Itoa(o.delay) ELSE <<>>)
    \o (IF o.concurrency > 1 THEN Space \o FlagConcurrency \o Space \o Itoa(o.concurrency)
        ELSE <<>>)

(* The shell the command is pasted into: words are split at the blanks     *)
(* outside single quotes, the quotes are removed, and a quote left open is *)
(* an error.  A blank is outside the quotes when an even number of quotes  *)
(* comes before it.                                                        *)
NotQuote(c) == c # "'"
QuotesBefore(s, j) == Cardinality({l \in 1..(j - 1) : s[l] = "'"})
WordBreaks(s) == {j \in 1..Len(s) : s[j] = " " /\ QuotesBefore(s, j) % 2 = 0}

RECURSIVE WordsFrom(_, _, _)
WordsFrom(s, breaks, from) ==
    IF from > Len(s) THEN <<>>
    ELSE LET ahead == {j \in breaks : j >= from}
             to == IF ahead = {} THEN Len(s) + 1
                   ELSE CHOOSE j \in ahead : \A l \in ahead : j <= l
             raw == SubSeq(s, from, to - 1)
         IN (IF raw = <<>> THEN <<>> ELSE <<SelectSeq(raw, NotQuote)>>)
            \o WordsFrom(s, breaks, to + 1)

ShellWords(s) ==
    IF QuotesBefore(s, Len(s) + 1) % 2 = 1
    THEN [words |-> <<>>, err |-> "unterminated quote"]
    ELSE [words |-> WordsFrom(s, WordBreaks(s), 1), err |-> "none"]

(* strconv.Atoi as pflag uses it for an int flag: -1 for what is no number *)
RECURSIVE AtoiLoop(_, _)
AtoiLoop(s, acc) ==
    IF s = <<>> THEN acc
    ELSE IF \E d \in 1..Len(Digits) : Digits[d] = Head(s)
    THEN AtoiLoop(Tail(s), acc * 10 + (CHOOSE d \in 1..Len(Digits) : Digits[d] = Head(s)) - 1)
    ELSE 0 - 1

Atoi(s) == IF s = <<>> THEN 0 - 1 ELSE AtoiLoop(s, 0)

(* ------------------------ the listing cursor --------------------------- *)
(* `var cursor *string`: nil, or the address of a string.                  *)
NilCursor == [isNil |-> TRUE, value |-> <<>>]
CursorTo(s) == [isNil |-> FALSE, value |-> s]

Null == <<"n","u","l","l">>
DoubleQuote == <<"\"">>

formatCursor(c) ==
    IF c.isNil \/ c.value = <<>> THEN Null
    ELSE DoubleQuote \o c.value \o DoubleQuote

(* The enterprise directory as the graph API pages it.  The argument       *)
(* `after` of a query is null or a quoted end cursor; an end cursor is the *)
(* number of pages before it.  The response is the page after that, whether *)
(* more follows, and the end cursor, which a directory either gives or     *)
(* leaves empty.                                                           *)
CursorPosition(after) ==
    IF after = Null THEN 0 ELSE Atoi(SubSeq(after, 2, Len(after) - 1))

PageAfter(directory, endCursors, after) ==
    LET c == CursorPosition(after) IN
    IF c < Len(directory)
    THEN [nodes |-> directory[c + 1], hasNextPage |-> (c + 1 < Len(directory)),
          endCursor |-> IF endCursors = "given" THEN Itoa(c + 1) ELSE <<>>]
    ELSE [nodes |-> <<>>, hasNextPage |-> FALSE, endCursor |-> <<>>]

(* The flags as cobra declares them: their defaults, the flags that take a *)
(* string, and what one flag with its value does to the options.           *)
DefaultFlags ==
    [hostname |-> <<>>, enterprise |-> <<>>, org |-> <<>>, allOrgs |-> FALSE,
     orgsCSVPath |-> <<>>, roleName |-> <<>>, roleDesc |-> <<>>, baseRole |-> <<>>,
     permissions |-> <<>>, delay |-> DefaultDelay, concurrency |-> DefaultConcurrency,
     args |-> <<>>, err |-> "none"]

StringFlags ==
    {FlagHostname, FlagEnterprise, FlagOrg, FlagOrgsCSV, FlagRoleName,
     FlagRoleDescription, FlagBaseRole, FlagPermissions}
IntFlags == {FlagDelay, FlagConcurrency}

SetFlag(f, name, value) ==
    CASE name = FlagHostname -> [f EXCEPT !.hostname = value]
      [] name = FlagEnterprise -> [f EXCEPT !.enterprise = value]
      [] name = FlagOrg -> [f EXCEPT !.org = value]
      [] name = FlagOrgsCSV -> [f EXCEPT !.orgsCSVPath = value]
      [] name = FlagRoleName -> [f EXCEPT !.roleName = value]
      [] name = FlagRoleDescription -> [f EXCEPT !.roleDesc = value]
      [] name = FlagBaseRole -> [f EXCEPT !.baseRole = value]
      [] name = FlagPermissions -> [f EXCEPT !.permissions = value]
      [] name = FlagDelay ->
           IF Atoi(value) < 0 THEN [f EXCEPT !.err = "invalid argument"]
           ELSE [f EXCEPT !.delay = Atoi(value)]
      [] name = FlagConcurrency ->
           IF Atoi(value) < 0 THEN [f EXCEPT !.err = "invalid argument"]
           ELSE [f EXCEPT !.concurrency = Atoi(value)]

(* cobra and pflag on the words after `gh custom-roles create`: a string   *)
(* or int flag takes the next word as its value whatever it is, --all-orgs *)
(* takes none, any other word with two dashes is an unknown flag, and a    *)
(* word without is an argument, which the create command accepts.          *)
RECURSIVE ParseArgs(_, _)
ParseArgs(words, f) ==
    IF words = <<>> \/ f.err # "none" THEN f
    ELSE LET w == Head(words) IN
         IF w = FlagAllOrgs THEN ParseArgs(Tail(words), [f EXCEPT !.allOrgs = TRUE])
         ELSE IF w \in StringFlags \cup IntFlags
         THEN IF Len(words) < 2 THEN [f EXCEPT !.err = "flag needs an argument"]
              ELSE ParseArgs(Tail(Tail(words)), SetFlag(f, w, words[2]))
         ELSE IF Len(w) >= 2 /\ SubSeq(w, 1, 2) = <<"-", "-">>
         THEN [f EXCEPT !.err = "unknown flag"]
         ELSE ParseArgs(Tail(words), [f EXCEPT !.args = Append(@, w)])

(* The command pasted into a shell and run: the options cobra hands to     *)
(* runCreate, or the error of the shell or of the flag parsing.            *)
ParseCommand(cmd) ==
    LET sh == ShellWords(cmd) IN
    IF sh.err # "none" THEN [DefaultFlags EXCEPT !.err = sh.err]
    ELSE IF Len(sh.words) < 3 \/ SubSeq(sh.words, 1, 3) # <<WordGh, WordCustomRoles, WordCreate>>
    THEN [DefaultFlags EXCEPT !.err = "unknown command"]
    ELSE ParseArgs(SubSeq(sh.words, 4, Len(sh.words)), DefaultFlags)

(* ------------------------------ state ---------------------------------- *)
VARIABLES
    delayChanged, concChanged, \* whether --delay / --concurrency were given
    delay, concurrency,       \* opts.delay, opts.concurrency
    validOrgs,                \* the resolved target list
    pc, result,               \* position of runCreate, and what it returns
    successCount, warningCount, errorCount,
    progress, lines,          \* progressBar.Increment calls, status lines printed
    i,                        \* index of the sequential loop
    next, semaphore, mu, wg,  \* spawn loop index, channel length, mutex holder, WaitGroup
    wpc, wtmp,                \* per goroutine: position, value read for count++
    existsResp, createResp,   \* per org: the remote's answer to each call
    existsCalls, createCalls, \* per org: calls issued
    counted, klass,           \* per target: counter increments made, and which counter
    printed, ticked,          \* per target: status lines printed, progress ticks made
    pauses,                   \* per target: seconds slept after it
    prev,                     \* the invocation before this one, if any
    roleName, baseRole, permFlag, \* opts.roleName, opts.baseRole, opts.permissions
    target,                   \* the target arguments and the data they name, until read
    orgs, cursor, queries,    \* resolveOrganizations: result, listing cursor, queries issued
    permissions,              \* the catalog fetched for validOrgs[0]
    lastRemote,               \* the latest remote call of the setup
    confirm,                  \* the answer to "Begin role creation?"
    replication               \* the replication command: from what, the text, as parsed

vars == <<delayChanged, concChanged, delay, concurrency, validOrgs, pc, result,
          successCount, warningCount, errorCount, progress, lines, i,
          next, semaphore, mu, wg, wpc, wtmp, existsResp, createResp,
          existsCalls, createCalls, counted, klass, printed, ticked, pauses, prev,
          roleName, baseRole, permFlag, target, orgs, cursor, queries, permissions,
          lastRemote, confirm, replication>>

flagVars == <<delayChanged, concChanged, delay, concurrency>>
setupVars == <<roleName, baseRole, permFlag, target, orgs, cursor, queries, permissions,
               lastRemote>>
cfgVars == <<flagVars, validOrgs, prev, setupVars, confirm, replication>>
countVars == <<successCount, warningCount, errorCount>>
outVars == <<progress, lines>>
seqVars == <<i, pauses>>
concVars == <<next, semaphore, mu, wg, wpc, wtmp>>
remoteVars == <<existsResp, createResp>>
histVars == <<existsCalls, createCalls, counted, klass, printed, ticked>>

DelayInputs == (0 - 1)..MaxDelay
ConcInputs == 0..MaxConc \cup {MaxConcurrency + 1}
Idx == 1..Len(validOrgs)

(* The remote answers a given call for a given org the same way every time; *)
(* the answer is drawn when the call is first made, and at most MaxFaults   *)
(* orgs get a failing one.                                                 *)
FaultyOrgs ==
    {o \in 1..MaxOrgs : existsResp[o] \in ExistsFaults \/ createResp[o] \in CreateFaults}

Reveal(cur, answers, faults) ==
    IF cur # Pending THEN {cur}
    ELSE answers \cup (IF Cardinality(FaultyOrgs) < MaxFaults THEN faults ELSE {})

Counter(c) ==
    CASE c = "success" -> successCount
      [] c = "warning" -> warningCount
      [] c = "error"   -> errorCount

(* ---------------------- what the run is given -------------------------- *)
(* The target arguments: how the mode was chosen (one flag, the prompt, or *)
(* two flags in conflict), the mode, and what it names: the organization,  *)
(* the CSV file as os.Open and csv.ReadAll find it, or the directory of    *)
(* the enterprise as the remote pages it.                                  *)
OrgTarget(via, org) ==
    [via |-> via, mode |-> "org", org |-> org, file |-> "none", records |-> <<>>,
     directory |-> <<>>, endCursors |-> "given"]
CSVTarget(via, file, records) ==
    [via |-> via, mode |-> "csv", org |-> <<>>, file |-> file, records |-> records,
     directory |-> <<>>, endCursors |-> "given"]
AllTarget(via, directory) ==
    [via |-> via, mode |-> "all", org |-> <<>>, file |-> "none", records |-> <<>>,
     directory |-> directory, endCursors |-> "given"]
AllTargetEmptyCursors(via, directory) ==
    [via |-> via, mode |-> "all", org |-> <<>>, file |-> "none", records |-> <<>>,
     directory |-> directory, endCursors |-> "empty"]
NoTarget ==
    [via |-> "read", mode |-> "none", org |-> <<>>, file |-> "none", records |-> <<>>,
     directory |-> <<>>, endCursors |-> "given"]

LoginRow(n) == [k \in 1..n |-> Login(k)]

MainTargets ==
    {OrgTarget("flag", OrgA), OrgTarget("flag", Blank), OrgTarget("conflict", OrgA),
     OrgTarget("prompt", OrgAPadded), OrgTarget("prompt", Blank)}
    \cup {CSVTarget("flag", "missing", <<>>), CSVTarget("flag", "malformed", <<>>),
          CSVTarget("prompt", "nopath", <<>>),
          CSVTarget("flag", "readable", <<<<Blank>>>>)}
    \cup {CSVTarget("flag", "readable", <<LoginRow(n)>>) : n \in 1..MaxOrgs}
    \cup {AllTarget("flag", <<>>), AllTarget("prompt", <<<<OrgB>>>>),
          AllTarget("flag", <<<<OrgA>>, <<OrgAPadded, OrgB>>>>)}

MainRoleNames == {<<>>, Blank, RoleDev}
RoleNamePrompts == {<<>>, RoleNameFlag}
RoleNames == {RoleDev, RoleNameFlag}
BaseRoleInputs == {<<>>, BaseWriteFlag, BaseAdminFlag}
PermFlagInputs == {<<>>, PermFlagBogus, PermFlagSpaced, PermFlagCommas}
Selections == {<<>>, <<PermWriteCode, PermWriteCode>>}
CatalogAnswers == {"perms_two", "perms_none"}
CatalogFaults == {"http_404", "no_exec", "bad_json"}
Catalog(a) ==
    IF a = "perms_two" THEN <<PermReadCode, PermWriteCode>> ELSE <<>>

EngineIdle ==
    /\ validOrgs = <<>>
    /\ result = "none"
    /\ successCount = 0 /\ warningCount = 0 /\ errorCount = 0
    /\ progress = 0 /\ lines = 0
    /\ i = 1
    /\ next = 1 /\ semaphore = 0 /\ mu = 0 /\ wg = 0
    /\ wpc = [k \in 1..MaxOrgs |-> "idle"]
    /\ wtmp = [k \in 1..MaxOrgs |-> 0]
    /\ existsResp = [o \in 1..MaxOrgs |-> Pending]
    /\ createResp = [o \in 1..MaxOrgs |-> Pending]
    /\ existsCalls = [o \in 1..MaxOrgs |-> 0]
    /\ createCalls = [o \in 1..MaxOrgs |-> 0]
    /\ counted = [k \in 1..MaxOrgs |-> 0]
    /\ klass = [k \in 1..MaxOrgs |-> "none"]
    /\ printed = [k \in 1..MaxOrgs |-> 0]
    /\ ticked = [k \in 1..MaxOrgs |-> 0]
    /\ pauses = [k \in 1..MaxOrgs |-> 0]
    /\ prev = [ran |-> FALSE, counts |-> <<0, 0, 0>>, sequential |-> FALSE]
    /\ orgs = <<>> /\ cursor = NilCursor /\ queries = 0
    /\ permissions = <<>>
    /\ lastRemote = "none"
    /\ confirm = "unasked"

(* What buildReplicationCommand is given, what it returns and what the     *)
(* flags are when that is run; nothing before the summary.                 *)
NoReplication ==
    [opts |-> [hostname |-> <<>>, enterprise |-> <<>>, org |-> <<>>, allOrgs |-> FALSE,
               orgsCSVPath |-> <<>>, roleName |-> <<>>, roleDesc |-> <<>>,
               delay |-> DefaultDelay, concurrency |-> DefaultConcurrency],
     baseRole |-> <<>>, permissions |-> <<>>, cmd |-> <<>>, flags |-> DefaultFlags]

(* The process starts: cobra has the flag values, nothing has run. *)
Start(names, targets) ==
    /\ delayChanged \in BOOLEAN
    /\ concChanged \in BOOLEAN
    /\ delay \in (IF delayChanged THEN DelayInputs ELSE {DefaultDelay})
    /\ concurrency \in (IF concChanged THEN ConcInputs ELSE {DefaultConcurrency})
    /\ roleName \in names
    /\ baseRole \in BaseRoleInputs
    /\ permFlag \in PermFlagInputs
    /\ target \in targets
    /\ pc = "flags"
    /\ replication = NoReplication
    /\ EngineIdle

Init == Start(MainRoleNames, MainTargets)

(* ------------------------- before the batch ---------------------------- *)
(* cobra: the flag groups MarkFlagsMutuallyExclusive("org","all-orgs",     *)
(* "orgs-csv") and ("delay","concurrency") reject two flags of a group.    *)
(* variant: only the group of the target flags is declared *)
ParseFlags_OnlyTargetGroup ==
    /\ pc = "flags"
    /\ IF target.via = "conflict"
       THEN pc' = "done" /\ result' = "flag_error"
       ELSE pc' = "target" /\ UNCHANGED result
    /\ UNCHANGED <<cfgVars, countVars, outVars, seqVars, concVars, remoteVars, histVars>>

ParseFlags ==
    /\ pc = "flags"
    /\ IF (delayChanged /\ concChanged) \/ target.via = "conflict"
       THEN pc' = "done" /\ result' = "flag_error"
       ELSE pc' = "target" /\ UNCHANGED result
    /\ UNCHANGED <<cfgVars, countVars, outVars, seqVars, concVars, remoteVars, histVars>>

(* runCreate: with no target flag the mode and its argument are asked for *)
SelectTarget ==
    /\ pc = "target"
    /\ IF target.via # "prompt"
       THEN pc' = "env" /\ UNCHANGED <<target, result>>
       ELSE \/ pc' = "done" /\ result' = "prompt_error" /\ UNCHANGED target
            \/ IF target.mode = "org" /\ normalizeOrg(target.org) = <<>>
               THEN pc' = "done" /\ result' = "target_error" /\ UNCHANGED target
               ELSE IF target.mode = "csv" /\ target.file = "nopath"
               THEN pc' = "done" /\ result' = "target_error" /\ UNCHANGED target
               ELSE /\ pc' = "env"
                    /\ target' = [target EXCEPT !.via = "flag",
                                                !.org = normalizeOrg(target.org)]
                    /\ UNCHANGED result
    /\ UNCHANGED <<flagVars, replication, validOrgs, prev, confirm, roleName, baseRole, permFlag, orgs,
                   cursor, queries, permissions, lastRemote,
                   countVars, outVars, seqVars, concVars, remoteVars, histVars>>

(* validateGitHubEnvironment: the client, GET meta, then the scopes *)
ValidateEnvironment ==
    /\ pc = "env"
    /\ \E outcome \in {"ok", "no_client", "rejected"} :
         /\ lastRemote' = (IF outcome = "no_client" THEN lastRemote ELSE "meta")
         /\ IF outcome = "ok" THEN pc' = "resolve" /\ UNCHANGED result
            ELSE pc' = "done" /\ result' = "env_error"
    /\ UNCHANGED <<flagVars, replication, validOrgs, prev, confirm, roleName, baseRole, permFlag, target,
                   orgs, cursor, queries, permissions,
                   countVars, outVars, seqVars, concVars, remoteVars, histVars>>

(* The enterprise slug, asked for when all organizations are the target,   *)
(* then resolveOrganizations: the one organization, the CSV file, or the   *)
(* start of the directory listing.                                         *)
ResolveOrganizations ==
    /\ pc = "resolve"
    /\ CASE target.mode = "all" ->
              /\ orgs' = <<>>
              /\ \/ pc' = "fetch" /\ UNCHANGED result
                 \/ pc' = "done" /\ result' = "prompt_error"
         [] target.mode = "org" ->
              /\ pc' = "orgs"
              /\ orgs' = <<normalizeOrg(target.org)>>
              /\ UNCHANGED result
         [] OTHER ->
              LET r == loadOrganizationsFromCSV(target.file, target.records) IN
              /\ orgs' = r.orgs
              /\ IF r.err # "none"
                 THEN pc' = "done" /\ result' = "csv_error"
                 ELSE pc' = "orgs" /\ UNCHANGED result
    /\ cursor' = NilCursor /\ queries' = 0
    /\ UNCHANGED <<flagVars, replication, validOrgs, prev, confirm, roleName, baseRole, permFlag, target,
                   permissions, lastRemote,
                   countVars, outVars, seqVars, concVars, remoteVars, histVars>>

(* variant: the loop ends after the first page whatever hasNextPage says *)
FetchPage_FirstPageOnly ==
    /\ pc = "fetch"
    /\ queries < MaxQueries
    /\ queries' = queries + 1
    /\ lastRemote' = "graphql"
    /\ \E response \in {"page", "exec_error", "bad_json"} :
         IF response # "page"
         THEN /\ pc' = "done" /\ result' = "listing_error"
              /\ orgs' = <<>>
              /\ UNCHANGED cursor
         ELSE LET page == PageAfter(target.directory, target.endCursors, formatCursor(cursor))
                  all == orgs \o [j \in 1..Len(page.nodes) |-> normalizeOrg(page.nodes[j])]
              IN /\ orgs' = uniqueStrings(all)
                 /\ pc' = "orgs"
                 /\ UNCHANGED <<cursor, result>>
    /\ UNCHANGED <<flagVars, replication, validOrgs, prev, confirm, roleName, baseRole, permFlag, target,
                   permissions,
                   countVars, outVars, seqVars, concVars, remoteVars, histVars>>

(* variant: a failed page returns the error with the logins fetched so far *)
FetchPage_ReturnsPartial ==
    /\ pc = "fetch"
    /\ queries < MaxQueries
    /\ queries' = queries + 1
    /\ lastRemote' = "graphql"
    /\ \E response \in {"page", "exec_error", "bad_json"} :
         IF response # "page"
         THEN /\ pc' = "done" /\ result' = "listing_error"
              /\ UNCHANGED <<orgs, cursor>>
         ELSE LET page == PageAfter(target.directory, target.endCursors, formatCursor(cursor))
                  all == orgs \o [j \in 1..Len(page.nodes) |-> normalizeOrg(page.nodes[j])]
              IN IF page.hasNextPage
                 THEN /\ orgs' = all
                      /\ cursor' = CursorTo(page.endCursor)
                      /\ UNCHANGED <<pc, result>>
                 ELSE /\ orgs' = uniqueStrings(all)
                      /\ pc' = "orgs"
                      /\ UNCHANGED <<cursor, result>>
    /\ UNCHANGED <<flagVars, replication, validOrgs, prev, confirm, roleName, baseRole, permFlag, target,
                   permissions,
                   countVars, outVars, seqVars, concVars, remoteVars, histVars>>

(* fetchOrganizations: one turn of the loop, the query and what is done    *)
(* with the response; after the last page, uniqueStrings(orgs).            *)
FetchPage ==
    /\ pc = "fetch"
    /\ queries < MaxQueries
    /\ queries' = queries + 1
    /\ lastRemote' = "graphql"
    /\ \E response \in {"page", "exec_error", "bad_json"} :
         IF response # "page"
         THEN /\ pc' = "done" /\ result' = "listing_error"
              /\ orgs' = <<>>
              /\ UNCHANGED cursor
         ELSE LET page == PageAfter(target.directory, target.endCursors, formatCursor(cursor))
                  all == orgs \o [j \in 1..Len(page.nodes) |-> normalizeOrg(page.nodes[j])]
              IN IF page.hasNextPage
                 THEN /\ orgs' = all
                      /\ cursor' = CursorTo(page.endCursor)
                      /\ UNCHANGED <<pc, result>>
                 ELSE /\ orgs' = uniqueStrings(all)
                      /\ pc' = "orgs"
                      /\ UNCHANGED <<cursor, result>>
    /\ UNCHANGED <<flagVars, replication, validOrgs, prev, confirm, roleName, baseRole, permFlag, target,
                   permissions,
                   countVars, outVars, seqVars, concVars, remoteVars, histVars>>

(* The organization the k-th identifier of a list names: identifiers name  *)
(* the same organization when they are the same string, and an            *)
(* organization is numbered by the first place its identifier has.         *)
TargetOf(list, k) ==
    CHOOSE j \in 1..k : list[j] = list[k] /\ \A l \in 1..(j - 1) : list[l] # list[k]

(* variant: an empty list is taken like any other *)
TakeOrganizations_NoEmptyCheck ==
    /\ pc = "orgs"
    /\ Len(orgs) <= MaxOrgs
    /\ validOrgs' = [k \in 1..Len(orgs) |-> TargetOf(orgs, k)]
    /\ target' = NoTarget
    /\ orgs' = <<>> /\ cursor' = NilCursor /\ queries' = 0
    /\ pc' = "rolename"
    /\ UNCHANGED result
    /\ UNCHANGED <<flagVars, replication, prev, confirm, roleName, baseRole, permFlag, permissions,
                   lastRemote, countVars, outVars, seqVars, concVars, remoteVars, histVars>>

(* runCreate: `if len(orgs) == 0`, then validOrgs := orgs.  From here on a  *)
(* target is known by its place in the list.                               *)
TakeOrganizations ==
    /\ pc = "orgs"
    /\ IF Len(orgs) = 0
       THEN /\ pc' = "done" /\ result' = "no_orgs_error"
            /\ UNCHANGED <<validOrgs, target, orgs, cursor, queries>>
       ELSE /\ Len(orgs) <= MaxOrgs
            /\ validOrgs' = [k \in 1..Len(orgs) |-> TargetOf(orgs, k)]
            /\ target' = NoTarget
            /\ orgs' = <<>> /\ cursor' = NilCursor /\ queries' = 0
            /\ pc' = "rolename"
            /\ UNCHANGED result
    /\ UNCHANGED <<flagVars, replication, prev, confirm, roleName, baseRole, permFlag, permissions,
                   lastRemote, countVars, outVars, seqVars, concVars, remoteVars, histVars>>

(* runCreate: the role name, asked for when the flag is empty, and the     *)
(* description prompt, which can only fail or go on.                       *)
ResolveRoleName ==
    /\ pc = "rolename"
    /\ \/ pc' = "done" /\ result' = "prompt_error" /\ UNCHANGED roleName
       \/ \E input \in (IF roleName = <<>> THEN RoleNamePrompts ELSE {roleName}) :
            LET name == (IF roleName = <<>> THEN TrimSpace(input) ELSE roleName) IN
            /\ roleName' = name
            /\ IF TrimSpace(name) = <<>>
               THEN pc' = "done" /\ result' = "rolename_error"
               ELSE pc' = "baserole" /\ UNCHANGED result
    /\ UNCHANGED <<flagVars, replication, validOrgs, prev, confirm, baseRole, permFlag, target, orgs,
                   cursor, queries, permissions, lastRemote,
                   countVars, outVars, seqVars, concVars, remoteVars, histVars>>

(* runCreate: resolveBaseRole, by the flag or by the prompt *)
ResolveBaseRole ==
    /\ pc = "baserole"
    /\ IF baseRole # <<>>
       THEN LET r == resolveBaseRole(baseRole) IN
            /\ baseRole' = r.role
            /\ IF r.err # "none"
               THEN pc' = "done" /\ result' = "baserole_error"
               ELSE pc' = "catalog" /\ UNCHANGED result
       ELSE \/ pc' = "done" /\ result' = "prompt_error" /\ UNCHANGED baseRole
            \/ /\ baseRole' \in {BaseRoleOptions[j] : j \in 1..Len(BaseRoleOptions)}
               /\ pc' = "catalog" /\ UNCHANGED result
    /\ UNCHANGED <<flagVars, replication, validOrgs, prev, confirm, roleName, permFlag, target, orgs,
                   cursor, queries, permissions, lastRemote,
                   countVars, outVars, seqVars, concVars, remoteVars, histVars>>

(* listFineGrainedPermissions(hostname, validOrgs[0]) *)
ListPermissions ==
    /\ pc = "catalog"
    /\ lastRemote' = "permissions"
    /\ \E a \in CatalogAnswers \cup CatalogFaults :
         IF a \in CatalogFaults
         THEN pc' = "done" /\ result' = "catalog_error" /\ UNCHANGED permissions
         ELSE pc' = "permissions" /\ permissions' = Catalog(a) /\ UNCHANGED result
    /\ UNCHANGED <<flagVars, replication, validOrgs, prev, confirm, roleName, baseRole, permFlag, target,
                   orgs, cursor, queries,
                   countVars, outVars, seqVars, concVars, remoteVars, histVars>>

(* variant: the error of resolvePermissions is dropped *)
ResolvePermissions_IgnoresError ==
    /\ pc = "permissions"
    /\ pc' = "validate"
    /\ baseRole' = <<>> /\ permFlag' = <<>> /\ permissions' = <<>>
    /\ UNCHANGED result
    /\ UNCHANGED <<flagVars, replication, validOrgs, prev, confirm, roleName, target, orgs, cursor,
                   queries, lastRemote,
                   countVars, outVars, seqVars, concVars, remoteVars, histVars>>

(* runCreate: resolvePermissions; what it returns goes into the create     *)
(* calls and is not looked at again here.                                  *)
ResolvePermissions ==
    /\ pc = "permissions"
    /\ \E selection \in Selections :
         LET r == resolvePermissions(permFlag, permissions, selection) IN
         IF r.err # "none"
         THEN /\ pc' = "done" /\ result' = "permissions_error"
              /\ UNCHANGED <<baseRole, permFlag, permissions>>
         ELSE /\ pc' = "validate"
              /\ baseRole' = <<>> /\ permFlag' = <<>> /\ permissions' = <<>>
              /\ UNCHANGED result
    /\ UNCHANGED <<flagVars, replication, validOrgs, prev, confirm, roleName, target, orgs, cursor,
                   queries, lastRemote,
                   countVars, outVars, seqVars, concVars, remoteVars, histVars>>

(* variant: the upper bound of concurrency is not checked *)
ValidateStrategy_NoUpperBound ==
    /\ pc = "validate"
    /\ IF concurrency < MinConcurrency
       THEN pc' = "done" /\ result' = "concurrency_error"
       ELSE IF delay < 0
       THEN pc' = "done" /\ result' = "delay_error"
       ELSE pc' = "confirm" /\ UNCHANGED result
    /\ UNCHANGED <<cfgVars, countVars, outVars, seqVars, concVars, remoteVars, histVars>>

(* runCreate: bounds of concurrency and delay *)
ValidateStrategy ==
    /\ pc = "validate"
    /\ IF concurrency < MinConcurrency \/ concurrency > MaxConcurrency
       THEN pc' = "done" /\ result' = "concurrency_error"
       ELSE IF delay < 0
       THEN pc' = "done" /\ result' = "delay_error"
       ELSE pc' = "confirm" /\ UNCHANGED result
    /\ UNCHANGED <<cfgVars, countVars, outVars, seqVars, concVars, remoteVars, histVars>>

(* variant: the answer to the prompt is not looked at *)
Confirm_IgnoresAnswer ==
    /\ pc = "confirm"
    /\ \E answer \in {"yes", "no", "failed"} :
         /\ confirm' = answer
         /\ CASE answer = "failed" -> pc' = "done" /\ result' = "prompt_error"
              [] OTHER -> /\ pc' = (IF delay > 0 THEN "seq_loop" ELSE "spawn")
                          /\ UNCHANGED result
    /\ UNCHANGED <<flagVars, replication, validOrgs, prev, setupVars,
                   countVars, outVars, seqVars, concVars, remoteVars, histVars>>

(* runCreate: the confirmation prompt, then the choice of strategy *)
Confirm ==
    /\ pc = "confirm"
    /\ \E answer \in {"yes", "no", "failed"} :
         /\ confirm' = answer
         /\ CASE answer = "failed" -> pc' = "done" /\ result' = "prompt_error"
              [] answer = "no" -> pc' = "done" /\ result' = "cancelled"
              [] OTHER -> /\ pc' = (IF delay > 0 THEN "seq_loop" ELSE "spawn")
                          /\ UNCHANGED result
    /\ UNCHANGED <<flagVars, replication, validOrgs, prev, setupVars,
                   countVars, outVars, seqVars, concVars, remoteVars, histVars>>

(* --------------------- sequential loop (delay > 0) --------------------- *)
(* Status line, count++ and progressBar.Increment() of one target, done by  *)
(* the only thread there is.                                               *)
(* variant: a skipped target is reported but warningCount++ is left out *)
SeqEffects_SkipWarning(k, c) ==
    /\ lines' = lines + 1
    /\ successCount' = successCount + (IF c = "success" THEN 1 ELSE 0)
    /\ warningCount' = warningCount
    /\ errorCount' = errorCount + (IF c = "error" THEN 1 ELSE 0)
    /\ progress' = progress + 1
    /\ counted' = [counted EXCEPT ![k] = @ + 1]
    /\ klass' = [klass EXCEPT ![k] = c]
    /\ printed' = [printed EXCEPT ![k] = @ + 1]
    /\ ticked' = [ticked EXCEPT ![k] = @ + 1]

SeqEffects(k, c) ==
    /\ lines' = lines + 1
    /\ successCount' = successCount + (IF c = "success" THEN 1 ELSE 0)
    /\ warningCount' = warningCount + (IF c = "warning" THEN 1 ELSE 0)
    /\ errorCount' = errorCount + (IF c = "error" THEN 1 ELSE 0)
    /\ progress' = progress + 1
    /\ counted' = [counted EXCEPT ![k] = @ + 1]
    /\ klass' = [klass EXCEPT ![k] = c]
    /\ printed' = [printed EXCEPT ![k] = @ + 1]
    /\ ticked' = [ticked EXCEPT ![k] = @ + 1]

(* for i, org := range validOrgs: the next roleExists call is issued *)
SeqExistsCall ==
    /\ pc = "seq_loop" /\ i <= Len(validOrgs)
    /\ pc' = "seq_exists"
    /\ existsCalls' = [existsCalls EXCEPT ![validOrgs[i]] = @ + 1]
    /\ UNCHANGED <<cfgVars, result, countVars, outVars, seqVars, concVars, remoteVars,
                   createCalls, counted, klass, printed, ticked>>

SeqLoopExit ==
    /\ pc = "seq_loop" /\ i > Len(validOrgs)
    /\ pc' = "summary"
    /\ UNCHANGED <<cfgVars, result, countVars, outVars, seqVars, concVars, remoteVars, histVars>>

(* roleExists returns: skip with a warning or an error (continue), or      *)
(* issue the createCustomRole call.                                        *)
SeqExistsReturn ==
    /\ pc = "seq_exists"
    /\ LET org == validOrgs[i] IN
       \E r \in Reveal(existsResp[org], ExistsAnswers, ExistsFaults) :
         LET branch == SeqExistsBranch[r][roleName] IN
         /\ existsResp' = [existsResp EXCEPT ![org] = r]
         /\ IF branch = "create"
            THEN /\ pc' = "seq_create"
                 /\ createCalls' = [createCalls EXCEPT ![org] = @ + 1]
                 /\ UNCHANGED <<countVars, outVars, counted, klass, printed, ticked, i>>
            ELSE /\ SeqEffects(i, branch)
                 /\ i' = i + 1
                 /\ pc' = "seq_loop"
                 /\ UNCHANGED createCalls
    /\ UNCHANGED <<cfgVars, result, pauses, concVars, createResp, existsCalls>>

(* createCustomRole returns: warning or error (continue), or success and   *)
(* then the sleep unless this was the last target.                         *)
SeqCreateReturn ==
    /\ pc = "seq_create"
    /\ LET org == validOrgs[i] IN
       \E r \in Reveal(createResp[org], CreateAnswers, CreateFaults) :
         LET c == SeqCreateBranch[r] IN
         /\ createResp' = [createResp EXCEPT ![org] = r]
         /\ SeqEffects(i, c)
         /\ IF c = "success" /\ i < Len(validOrgs)
            THEN pc' = "seq_sleep" /\ UNCHANGED i
            ELSE pc' = "seq_loop" /\ i' = i + 1
    /\ UNCHANGED <<cfgVars, result, pauses, concVars, existsResp, existsCalls, createCalls>>

(* time.Sleep(delay seconds) is over *)
SeqSleep ==
    /\ pc = "seq_sleep"
    /\ pauses' = [pauses EXCEPT ![i] = delay]
    /\ i' = i + 1
    /\ pc' = "seq_loop"
    /\ UNCHANGED <<cfgVars, result, countVars, outVars, concVars, remoteVars, histVars>>

(* ------------------ worker goroutines (delay = 0) ---------------------- *)
(* The counter the goroutine of target k increments, from its locals       *)
(* existsErr, exists and createErr.                                        *)
WClass(k) ==
    LET org == validOrgs[k]
        branch == ConcExistsBranch[existsResp[org]][roleName]
    IN IF branch = "create" THEN ConcCreateBranch[createResp[org]] ELSE branch

(* variant: the goroutine is started without waiting for a slot *)
Admit_NoGate ==
    /\ pc = "spawn" /\ next <= Len(validOrgs)
    /\ wg' = wg + 1
    /\ semaphore' = semaphore + 1
    /\ wpc' = [wpc EXCEPT ![next] = "start"]
    /\ next' = next + 1
    /\ UNCHANGED <<cfgVars, pc, result, countVars, outVars, seqVars, mu, wtmp, remoteVars,
                   histVars>>

(* variant: the channel is made one slot too large *)
Admit_ExtraSlot ==
    /\ pc = "spawn" /\ next <= Len(validOrgs)
    /\ semaphore < concurrency + 1
    /\ wg' = wg + 1
    /\ semaphore' = semaphore + 1
    /\ wpc' = [wpc EXCEPT ![next] = "start"]
    /\ next' = next + 1
    /\ UNCHANGED <<cfgVars, pc, result, countVars, outVars, seqVars, mu, wtmp, remoteVars,
                   histVars>>

(* wg.Add(1); semaphore <- struct{}{}; go func(org) *)
Admit ==
    /\ pc = "spawn" /\ next <= Len(validOrgs)
    /\ semaphore < concurrency
    /\ wg' = wg + 1
    /\ semaphore' = semaphore + 1
    /\ wpc' = [wpc EXCEPT ![next] = "start"]
    /\ next' = next + 1
    /\ UNCHANGED <<cfgVars, pc, result, countVars, outVars, seqVars, mu, wtmp, remoteVars,
                   histVars>>

SpawnExit ==
    /\ pc = "spawn" /\ next > Len(validOrgs)
    /\ pc' = "wait"
    /\ UNCHANGED <<cfgVars, result, countVars, outVars, seqVars, concVars, remoteVars, histVars>>

(* variant: the join is missing *)
Wait_NoJoin ==
    /\ pc = "wait"
    /\ pc' = "summary"
    /\ UNCHANGED <<cfgVars, result, countVars, outVars, seqVars, concVars, remoteVars, histVars>>

(* wg.Wait() returns *)
Wait ==
    /\ pc = "wait" /\ wg = 0
    /\ pc' = "summary"
    /\ UNCHANGED <<cfgVars, result, countVars, outVars, seqVars, concVars, remoteVars, histVars>>

WExistsCall(k) ==
    /\ wpc[k] = "start"
    /\ wpc' = [wpc EXCEPT ![k] = "exists"]
    /\ existsCalls' = [existsCalls EXCEPT ![validOrgs[k]] = @ + 1]
    /\ UNCHANGED <<cfgVars, pc, result, countVars, outVars, seqVars, next, semaphore, mu, wg,
                   wtmp, remoteVars, createCalls, counted, klass, printed, ticked>>

(* roleExists returns: on an error or an existing role go for the mutex,   *)
(* otherwise issue the createCustomRole call.                              *)
WExistsReturn(k) ==
    /\ wpc[k] = "exists"
    /\ LET org == validOrgs[k] IN
       \E r \in Reveal(existsResp[org], ExistsAnswers, ExistsFaults) :
         LET branch == ConcExistsBranch[r][roleName] IN
         /\ existsResp' = [existsResp EXCEPT ![org] = r]
         /\ IF branch = "create"
            THEN /\ wpc' = [wpc EXCEPT ![k] = "create"]
                 /\ createCalls' = [createCalls EXCEPT ![org] = @ + 1]
            ELSE /\ wpc' = [wpc EXCEPT ![k] = "lock"]
                 /\ UNCHANGED createCalls
    /\ UNCHANGED <<cfgVars, pc, result, countVars, outVars, seqVars, next, semaphore, mu, wg,
                   wtmp, createResp, existsCalls, counted, klass, printed, ticked>>

WCreateReturn(k) ==
    /\ wpc[k] = "create"
    /\ LET org == validOrgs[k] IN
       \E r \in Reveal(createResp[org], CreateAnswers, CreateFaults) :
         createResp' = [createResp EXCEPT ![org] = r]
    /\ wpc' = [wpc EXCEPT ![k] = "lock"]
    /\ UNCHANGED <<cfgVars, pc, result, countVars, outVars, seqVars, next, semaphore, mu, wg,
                   wtmp, existsResp, histVars>>

(* variant: the counters are updated without taking the mutex *)
WLock_NoMutex(k) ==
    /\ wpc[k] = "lock"
    /\ mu' = k
    /\ wpc' = [wpc EXCEPT ![k] = "line"]
    /\ UNCHANGED <<cfgVars, pc, result, countVars, outVars, seqVars, next, semaphore, wg,
                   wtmp, remoteVars, histVars>>

(* mu.Lock() *)
WLock(k) ==
    /\ wpc[k] = "lock"
    /\ mu = 0
    /\ mu' = k
    /\ wpc' = [wpc EXCEPT ![k] = "line"]
    /\ UNCHANGED <<cfgVars, pc, result, countVars, outVars, seqVars, next, semaphore, wg,
                   wtmp, remoteVars, histVars>>

(* pterm.{Warning,Error,Success}.Printfln, then the load of count++ *)
WLineLoad(k) ==
    /\ wpc[k] = "line"
    /\ lines' = lines + 1
    /\ printed' = [printed EXCEPT ![k] = @ + 1]
    /\ wtmp' = [wtmp EXCEPT ![k] = Counter(WClass(k))]
    /\ wpc' = [wpc EXCEPT ![k] = "store"]
    /\ UNCHANGED <<cfgVars, pc, result, countVars, progress, seqVars, next, semaphore, mu, wg,
                   remoteVars, existsCalls, createCalls, counted, klass, ticked>>

(* variant: a skipped target does not advance the progress bar *)
WStoreTick_SkippedNotTicked(k) ==
    /\ wpc[k] = "store"
    /\ LET c == WClass(k) IN
       /\ successCount' = (IF c = "success" THEN wtmp[k] + 1 ELSE successCount)
       /\ warningCount' = (IF c = "warning" THEN wtmp[k] + 1 ELSE warningCount)
       /\ errorCount' = (IF c = "error" THEN wtmp[k] + 1 ELSE errorCount)
       /\ klass' = [klass EXCEPT ![k] = c]
       /\ progress' = progress + (IF c = "warning" THEN 0 ELSE 1)
       /\ ticked' = [ticked EXCEPT ![k] = @ + (IF c = "warning" THEN 0 ELSE 1)]
    /\ counted' = [counted EXCEPT ![k] = @ + 1]
    /\ wtmp' = [wtmp EXCEPT ![k] = 0]
    /\ wpc' = [wpc EXCEPT ![k] = "unlock"]
    /\ UNCHANGED <<cfgVars, pc, result, lines, seqVars, next, semaphore, mu, wg,
                   remoteVars, existsCalls, createCalls, printed>>

(* the store of count++, then progressBar.Increment() *)
WStoreTick(k) ==
    /\ wpc[k] = "store"
    /\ LET c == WClass(k) IN
       /\ successCount' = (IF c = "success" THEN wtmp[k] + 1 ELSE successCount)
       /\ warningCount' = (IF c = "warning" THEN wtmp[k] + 1 ELSE warningCount)
       /\ errorCount' = (IF c = "error" THEN wtmp[k] + 1 ELSE errorCount)
       /\ klass' = [klass EXCEPT ![k] = c]
    /\ counted' = [counted EXCEPT ![k] = @ + 1]
    /\ wtmp' = [wtmp EXCEPT ![k] = 0]
    /\ progress' = progress + 1
    /\ ticked' = [ticked EXCEPT ![k] = @ + 1]
    /\ wpc' = [wpc EXCEPT ![k] = "unlock"]
    /\ UNCHANGED <<cfgVars, pc, result, lines, seqVars, next, semaphore, mu, wg,
                   remoteVars, existsCalls, createCalls, printed>>

(* variant: a path of the goroutine returns without mu.Unlock() *)
WUnlock_Forgotten(k) ==
    /\ wpc[k] = "unlock"
    /\ mu' = (IF WClass(k) = "warning" THEN mu ELSE 0)
    /\ wpc' = [wpc EXCEPT ![k] = "release"]
    /\ UNCHANGED <<cfgVars, pc, result, countVars, outVars, seqVars, next, semaphore, wg,
                   wtmp, remoteVars, histVars>>

(* mu.Unlock() *)
WUnlock(k) ==
    /\ wpc[k] = "unlock"
    /\ mu' = 0
    /\ wpc' = [wpc EXCEPT ![k] = "release"]
    /\ UNCHANGED <<cfgVars, pc, result, countVars, outVars, seqVars, next, semaphore, wg,
                   wtmp, remoteVars, histVars>>

(* deferred: <-semaphore *)
WRelease(k) ==
    /\ wpc[k] = "release"
    /\ semaphore' = semaphore - 1
    /\ wpc' = [wpc EXCEPT ![k] = "wgdone"]
    /\ UNCHANGED <<cfgVars, pc, result, countVars, outVars, seqVars, next, mu, wg,
                   wtmp, remoteVars, histVars>>

(* deferred: wg.Done() *)
WDone(k) ==
    /\ wpc[k] = "wgdone"
    /\ wg' = wg - 1
    /\ wpc' = [wpc EXCEPT ![k] = "exited"]
    /\ UNCHANGED <<cfgVars, pc, result, countVars, outVars, seqVars, next, semaphore, mu,
                   wtmp, remoteVars, histVars>>

(* --------------------------- after the batch --------------------------- *)
(* variant: a skipped target makes the run fail as well *)
Summary_WarningsFail ==
    /\ pc = "summary"
    /\ result' = (IF errorCount + warningCount > 0 THEN "error" ELSE "ok")
    /\ pc' = "done"
    /\ UNCHANGED <<cfgVars, countVars, outVars, seqVars, concVars, remoteVars, histVars>>

(* the summary, then: if errorCount > 0 return an error *)
Summary ==
    /\ pc = "summary"
    /\ result' = (IF errorCount > 0 THEN "error" ELSE "ok")
    /\ pc' = "done"
    /\ UNCHANGED <<cfgVars, countVars, outVars, seqVars, concVars, remoteVars, histVars>>

Worker(k) ==
    \/ WExistsCall(k) \/ WExistsReturn(k) \/ WCreateReturn(k)
    \/ WLock(k) \/ WLineLoad(k) \/ WStoreTick(k) \/ WUnlock(k)
    \/ WRelease(k) \/ WDone(k)

Next ==
    \/ ParseFlags \/ SelectTarget \/ ValidateEnvironment
    \/ ResolveOrganizations \/ FetchPage \/ TakeOrganizations
    \/ ResolveRoleName \/ ResolveBaseRole \/ ListPermissions \/ ResolvePermissions
    \/ ValidateStrategy \/ Confirm
    \/ SeqExistsCall \/ SeqLoopExit \/ SeqExistsReturn \/ SeqCreateReturn \/ SeqSleep
    \/ Admit \/ SpawnExit \/ Wait
    \/ \E k \in 1..MaxOrgs : Worker(k)
    \/ Summary

Spec == Init /\ [][Next]_vars

(* The scheduler always runs some goroutine of a started batch that can    *)
(* take a step; nothing makes the user answer a prompt or the setup's      *)
(* remote calls return.                                                    *)
Scheduled ==
    \/ Admit \/ SpawnExit \/ Wait
    \/ \E k \in 1..MaxOrgs : Worker(k)
    \/ Summary

FairSpec == Spec /\ WF_vars(Scheduled)

(* Another invocation of the command with the same role and target        *)
(* arguments and any strategy flags cobra accepts, against a remote that   *)
(* answers each call as it did the time before.  Its setup resolves the    *)
(* same targets and is not gone through again.                             *)
Rerun ==
    /\ pc = "done" /\ result \in {"ok", "error"}
    /\ prev' = [ran |-> TRUE, counts |-> <<successCount, warningCount, errorCount>>,
                sequential |-> (delay > 0)]
    /\ delayChanged' \in BOOLEAN
    /\ concChanged' \in BOOLEAN
    /\ delay' \in (IF delayChanged' THEN DelayInputs ELSE {DefaultDelay})
    /\ concurrency' \in (IF concChanged' THEN ConcInputs ELSE {DefaultConcurrency})
    /\ ~(delayChanged' /\ concChanged')
    /\ pc' = "validate"
    /\ confirm' = "unasked"
    /\ result' = "none"
    /\ successCount' = 0 /\ warningCount' = 0 /\ errorCount' = 0
    /\ progress' = 0 /\ lines' = 0
    /\ i' = 1
    /\ next' = 1 /\ semaphore' = 0 /\ mu' = 0 /\ wg' = 0
    /\ wpc' = [k \in 1..MaxOrgs |-> "idle"]
    /\ wtmp' = [k \in 1..MaxOrgs |-> 0]
    /\ existsCalls' = [o \in 1..MaxOrgs |-> 0]
    /\ createCalls' = [o \in 1..MaxOrgs |-> 0]
    /\ counted' = [k \in 1..MaxOrgs |-> 0]
    /\ klass' = [k \in 1..MaxOrgs |-> "none"]
    /\ printed' = [k \in 1..MaxOrgs |-> 0]
    /\ ticked' = [k \in 1..MaxOrgs |-> 0]
    /\ pauses' = [k \in 1..MaxOrgs |-> 0]
    /\ UNCHANGED <<replication, validOrgs, remoteVars, setupVars>>

NextTwice == Next \/ Rerun

SpecTwice == Init /\ [][NextTwice]_vars

(* The same command line given a second time, against a remote that keeps *)
(* what the first run created: an org whose create call succeeded lists    *)
(* the new role from now on, the other orgs answer the lookup as before,   *)
(* and no create call has been answered yet.                               *)
RunAgain ==
    /\ pc = "done" /\ result \in {"ok", "error"}
    /\ ~prev.ran
    /\ prev' = [ran |-> TRUE, counts |-> <<successCount, warningCount, errorCount>>,
                sequential |-> (delay > 0)]
    /\ existsResp' = [o \in 1..MaxOrgs |->
                        IF createCalls[o] >= 1 /\ createResp[o] = "created"
                        THEN Stored ELSE existsResp[o]]
    /\ createResp' = [o \in 1..MaxOrgs |-> Pending]
    /\ pc' = "validate"
    /\ confirm' = "unasked"
    /\ result' = "none"
    /\ successCount' = 0 /\ warningCount' = 0 /\ errorCount' = 0
    /\ progress' = 0 /\ lines' = 0
    /\ i' = 1
    /\ next' = 1 /\ semaphore' = 0 /\ mu' = 0 /\ wg' = 0
    /\ wpc' = [k \in 1..MaxOrgs |-> "idle"]
    /\ wtmp' = [k \in 1..MaxOrgs |-> 0]
    /\ existsCalls' = [o \in 1..MaxOrgs |-> 0]
    /\ createCalls' = [o \in 1..MaxOrgs |-> 0]
    /\ counted' = [k \in 1..MaxOrgs |-> 0]
    /\ klass' = [k \in 1..MaxOrgs |-> "none"]
    /\ printed' = [k \in 1..MaxOrgs |-> 0]
    /\ ticked' = [k \in 1..MaxOrgs |-> 0]
    /\ pauses' = [k \in 1..MaxOrgs |-> 0]
    /\ UNCHANGED <<flagVars, replication, validOrgs, setupVars>>

(* The role name comes from --role-name, as typed. *)
AgainRoleNames == {RoleDev, RoleNameFlag}

AgainInit == Start(AgainRoleNames, MainTargets)

NextAgain == Next \/ RunAgain

SpecAgain == AgainInit /\ [][NextAgain]_vars

(* Runs over the whole enterprise: directories of one, two and three pages *)
(* with logins that differ in case and padding or come twice, an empty     *)
(* one, and one of three pages of PageSizes logins, all different.         *)
PageSizes == <<100, 100, 37>>

RECURSIVE PagesOf(_, _)
PagesOf(sizes, from) ==
    IF sizes = <<>> THEN <<>>
    ELSE <<[k \in 1..Head(sizes) |-> Login(from + k)]>>
         \o PagesOf(Tail(sizes), from + Head(sizes))

BigDirectory == PagesOf(PageSizes, 0)

ListDirectories ==
    {<<>>, <<<<OrgB>>>>, <<<<OrgA>>, <<OrgAPadded, OrgB>>>>,
     <<<<OrgB, OrgB>>, <<OrgA>>, <<OrgALower>>>>, BigDirectory}

ListTargets ==
    {AllTarget("flag", d) : d \in ListDirectories} \cup {AllTarget("prompt", <<<<OrgB>>>>)}

ListInit == Start({RoleDev}, ListTargets)

SpecList == ListInit /\ [][Next]_vars

(* Runs over the whole enterprise against directories of one, two and      *)
(* three pages, some that give an end cursor with every page and some that *)
(* leave it empty.                                                         *)
CursorDirectories ==
    {<<<<OrgB>>>>, <<<<OrgA>>, <<OrgB>>>>, <<<<OrgA>>, <<OrgB>>, <<OrgALower>>>>}

CursorTargets ==
    {AllTarget("flag", d) : d \in CursorDirectories}
    \cup {AllTargetEmptyCursors("flag", d) : d \in CursorDirectories}
    \cup {AllTarget("prompt", <<<<OrgB>>>>)}

CursorInit == Start({RoleDev}, CursorTargets)

SpecCursor == CursorInit /\ [][Next]_vars

(* Runs over a CSV file: every file of up to MaxCells cells in one or two   *)
(* records, the cells drawn from names that differ in case and padding and *)
(* a blank one; the three names OrgA, orga, OrgB one to a record; a file   *)
(* that cannot be opened; and, instead of a file, an enterprise whose two   *)
(* pages name one organization in two spellings, and one organization      *)
(* named by flag.                                                          *)
MaxCells == 3
CSVCells == {OrgA, OrgALower, OrgAPadded, OrgB, Blank}
CSVFiles ==
    {<<SubSeq(cells, 1, j), SubSeq(cells, j + 1, Len(cells))>> :
       <<cells, j>> \in {<<c, k>> \in (UNION {[1..n -> CSVCells] : n \in 0..MaxCells})
                                        \X (0..MaxCells) : k <= Len(c)}}
    \cup {<<<<OrgA>>, <<OrgALower>>, <<OrgB>>>>}

CSVTargets ==
    {CSVTarget("flag", "readable", records) : records \in CSVFiles}
    \cup {CSVTarget("flag", "missing", <<>>), AllTarget("flag", <<<<OrgA>>, <<OrgALower>>>>),
          OrgTarget("flag", OrgB)}

CSVInit ==
    /\ baseRole = BaseWriteFlag
    /\ permFlag = <<>>
    /\ Start({RoleDev}, CSVTargets)

SpecCSV == CSVInit /\ [][Next]_vars

(* The end of a run, from the summary on: the options as the setup left    *)
(* them (one target mode, the enterprise only with --all-orgs, a role name *)
(* that is not blank, a description or none, one strategy), the base role  *)
(* and the permissions resolved.  The tip is printed, and the user runs    *)
(* what it says.                                                           *)
FinalTargets ==
    {[org |-> OrgALower, allOrgs |-> FALSE, orgsCSVPath |-> <<>>, enterprise |-> <<>>],
     [org |-> <<>>, allOrgs |-> TRUE, orgsCSVPath |-> <<>>, enterprise |-> EnterpriseAcme],
     [org |-> <<>>, allOrgs |-> FALSE, orgsCSVPath |-> PathOrgsCSV, enterprise |-> <<>>],
     [org |-> <<>>, allOrgs |-> FALSE, orgsCSVPath |-> PathWithSpace, enterprise |-> <<>>]}
FinalRoleNames == {RoleDev, RoleNameFlag, RoleWithSpace}
FinalDescriptions == {<<>>, DescWithSpaces, DescWithApostrophe}
FinalStrategies ==
    {[delay |-> d, concurrency |-> DefaultConcurrency] : d \in 0..MaxDelay}
    \cup {[delay |-> DefaultDelay, concurrency |-> c] : c \in 1..MaxConc}
    \cup {[delay |-> DefaultDelay, concurrency |-> MaxConcurrency]}
FinalBaseRoles == {BaseRoleOptions[j] : j \in 1..Len(BaseRoleOptions)}
FinalPermissions == {<<PermReadCode>>, <<PermWriteCode, PermReadCode>>}

FinalOptions ==
    {[hostname |-> HostGitHub, enterprise |-> t.enterprise, org |-> t.org,
      allOrgs |-> t.allOrgs, orgsCSVPath |-> t.orgsCSVPath, roleName |-> n,
      roleDesc |-> d, delay |-> st.delay, concurrency |-> st.concurrency] :
       t \in FinalTargets, n \in FinalRoleNames, d \in FinalDescriptions,
       st \in FinalStrategies}

ReplicateInit ==
    /\ delayChanged = FALSE /\ concChanged = FALSE
    /\ delay = DefaultDelay /\ concurrency = DefaultConcurrency
    /\ roleName = <<>> /\ baseRole = <<>> /\ permFlag = <<>>
    /\ target = NoTarget
    /\ pc = "tip"
    /\ replication \in
         {[NoReplication EXCEPT !.opts = o, !.baseRole = b, !.permissions = ps] :
            o \in FinalOptions, b \in FinalBaseRoles, ps \in FinalPermissions}
    /\ EngineIdle

(* cmd := buildReplicationCommand(opts, baseRole, selectedPermissions) *)
BuildReplicationCommand ==
    /\ pc = "tip"
    /\ replication' =
         [replication EXCEPT !.cmd = buildReplicationCommand(replication.opts,
                                        replication.baseRole, replication.permissions)]
    /\ pc' = "tipped"
    /\ UNCHANGED <<flagVars, validOrgs, prev, setupVars, confirm, result,
                   countVars, outVars, seqVars, concVars, remoteVars, histVars>>

(* the printed command is run: the shell, then cobra *)
RunReplicationCommand ==
    /\ pc = "tipped"
    /\ replication' = [replication EXCEPT !.flags = ParseCommand(replication.cmd)]
    /\ pc' = "replicated"
    /\ UNCHANGED <<flagVars, validOrgs, prev, setupVars, confirm, result,
                   countVars, outVars, seqVars, concVars, remoteVars, histVars>>

NextReplicate == BuildReplicationCommand \/ RunReplicationCommand

SpecReplicate == ReplicateInit /\ [][NextReplicate]_vars

(* ============================== claims ================================= *)
BatchDone == pc = "summary" \/ (pc = "done" /\ result \in {"ok", "error"})
Sum3 == successCount + warningCount + errorCount
OfClass(c) == {k \in Idx : klass[k] = c}

RECURSIVE SumUpTo(_, _)
SumUpTo(f, n) == IF n = 0 THEN 0 ELSE f[n] + SumUpTo(f, n - 1)

HoldsSlot(k) ==
    wpc[k] \in {"start", "exists", "create", "lock", "line", "store", "unlock", "release"}
InFlight == {k \in 1..MaxOrgs : HoldsSlot(k)}
EffectsDone(k) == counted[k] = 1 /\ ticked[k] = 1 /\ printed[k] = 1
InUnit(k) == wpc[k] \in {"line", "store", "unlock"}
ExistsResult ==
    [r \in ExistsAnswers \cup ExistsFaults |->
       [name \in RoleNames |-> roleExists(ghAPI(r), name)]]

(* C1: when the batch has finished, in either strategy, the three counters *)
(* add up to the number of resolved targets, every target has incremented  *)
(* a counter exactly once, and each counter holds exactly the targets of   *)
(* its class; no target ever increments twice.                             *)
C1_CountersSumToTargets ==
    /\ \A k \in 1..MaxOrgs : counted[k] <= 1
    /\ BatchDone =>
         /\ Sum3 = Len(validOrgs)
         /\ \A k \in Idx : counted[k] = 1
         /\ successCount = Cardinality(OfClass("success"))
         /\ warningCount = Cardinality(OfClass("warning"))
         /\ errorCount = Cardinality(OfClass("error"))

C1_Witness ==
    /\ BatchDone /\ Len(validOrgs) = 2
    /\ delay = 0 /\ concurrency = 2
    /\ successCount = 1 /\ warningCount = 0 /\ errorCount = 1

(* C2: in concurrency mode at most `concurrency` targets are in flight;    *)
(* the slots taken from the semaphore are exactly those of the goroutines  *)
(* between admission and release, a check is only ever started by an       *)
(* admitted goroutine, and a goroutine that has given its slot back has    *)
(* made its counter update, its progress tick and its status line.         *)
C2_AdmissionBound ==
    /\ Cardinality(InFlight) <= concurrency
    /\ semaphore = Cardinality(InFlight)
    /\ Cardinality({k \in 1..MaxOrgs : wpc[k] # "idle" /\ ~EffectsDone(k)}) <= concurrency
    /\ \A k \in Idx :
         /\ (delay = 0 /\ existsCalls[validOrgs[k]] >= 1) => wpc[k] \notin {"idle", "start"}
         /\ wpc[k] \in {"wgdone", "exited"} => EffectsDone(k)

C2_Witness ==
    /\ delay = 0 /\ concurrency = 1 /\ Len(validOrgs) = 2
    /\ pc = "spawn" /\ next = 2 /\ semaphore = 1
    /\ wpc[1] = "create" /\ wpc[2] = "idle"

(* C3: at most one goroutine is inside its unit of status line, counter    *)
(* increment and progress tick, it is the holder of the mutex, and no      *)
(* increment is lost: the counters add up to the increments made.          *)
C3_EffectsInOneCriticalSection ==
    /\ Cardinality({k \in 1..MaxOrgs : InUnit(k)}) <= 1
    /\ \A k \in 1..MaxOrgs : InUnit(k) => mu = k
    /\ Sum3 = SumUpTo(counted, MaxOrgs)
    /\ lines = SumUpTo(printed, MaxOrgs)
    /\ progress = SumUpTo(ticked, MaxOrgs)

C3_Witness ==
    /\ wpc[1] = "store" /\ wpc[2] = "lock" /\ mu = 1
    /\ klass[1] = "none" /\ concurrency = 2

(* C4: in concurrency mode every target's check is started at most once,   *)
(* runCreate is past wg.Wait() only when every goroutine has finished with *)
(* its target counted, and under fair scheduling every target of a started *)
(* batch is eventually finished and the run eventually returns, whatever   *)
(* the other targets' outcomes.                                            *)
C4_AllTargetsFinish ==
    /\ [](\A o \in 1..MaxOrgs : existsCalls[o] <= 1)
    /\ []((delay = 0 /\ BatchDone) =>
            \A k \in Idx : /\ wpc[k] = "exited" /\ counted[k] = 1
                           /\ existsCalls[validOrgs[k]] = 1)
    /\ (pc = "spawn") ~>
         (/\ pc = "done" /\ result \in {"ok", "error"}
          /\ \A k \in Idx : wpc[k] = "exited" /\ klass[k] # "none")

C4_Witness ==
    /\ delay = 0 /\ concurrency = 2 /\ Len(validOrgs) = 2
    /\ pc = "done" /\ result = "error"
    /\ klass[1] = "error" /\ klass[2] = "success"

(* C5: a run and the next run on the same targets against the same answers *)
(* end with the same three counters, whatever the strategy of each (delay, *)
(* or any concurrency) and the interleaving of the goroutines.             *)
C5_SameCountersInBothStrategies ==
    (prev.ran /\ BatchDone) => <<successCount, warningCount, errorCount>> = prev.counts

C5_Witness ==
    /\ prev.ran /\ BatchDone /\ Len(validOrgs) = 2
    /\ prev.sequential /\ delay = 0 /\ concurrency = 2
    /\ prev.counts = <<1, 1, 0>>
    /\ \E o \in 1..MaxOrgs : createCalls[o] = 1 /\ createResp[o] = "http_404"

(* C6: in delay mode every target but the last is followed by a pause of   *)
(* `delay` seconds before the next target's check starts, whether it was   *)
(* created, skipped or failed, and the last target is followed by none.    *)
C6_PauseAfterEveryTargetButLast ==
    delay > 0 =>
      \A k \in Idx :
        /\ (k < Len(validOrgs) /\ existsCalls[validOrgs[k + 1]] >= 1) => pauses[k] = delay
        /\ k = Len(validOrgs) => pauses[k] = 0

(* C7: with delay = 0 and concurrency = 1 at most one target is in flight, *)
(* a target is admitted only when every earlier target of the list has     *)
(* been counted and has given its slot back, and nothing is slept.         *)
C7_StrictlySequential ==
    (delay = 0 /\ concurrency = 1) =>
      /\ Cardinality(InFlight) <= 1
      /\ \A k \in Idx :
           wpc[k] # "idle" =>
             \A j \in 1..(k - 1) : wpc[j] \in {"wgdone", "exited"} /\ EffectsDone(j)
      /\ \A k \in 1..MaxOrgs : pauses[k] = 0

C7_Witness ==
    /\ delay = 0 /\ concurrency = 1 /\ Len(validOrgs) = 2
    /\ wpc[1] = "wgdone" /\ wpc[2] = "create"

(* C8: in either strategy createCustomRole is called at most once per      *)
(* target, and only when roleExists for that target has been called and    *)
(* has returned false with no error.                                       *)
C8_CreateOnlyAfterNegativeCheck ==
    \A o \in 1..MaxOrgs :
      /\ createCalls[o] <= 1
      /\ createCalls[o] = 1 =>
           /\ existsCalls[o] = 1
           /\ existsResp[o] # Pending
           /\ ExistsResult[existsResp[o]][roleName] = [exists |-> FALSE, err |-> Nil]

C8_Witness ==
    /\ delay = 0 /\ concurrency = 2
    /\ createCalls[1] = 1 /\ wpc[1] = "create"
    /\ existsResp[2] = "roles_match" /\ createCalls[2] = 0 /\ klass[2] = "warning"

(* C9: in either strategy a created role counts as a success, an existing  *)
(* role as a warning and a not-found answer to either call as a warning;   *)
(* two targets, the first created and the second not found, end with       *)
(* success = 1, warning = 1, error = 0.                                    *)
C9_ClassificationRules ==
    /\ \A k \in Idx :
         counted[k] >= 1 =>
           LET o == validOrgs[k] IN
           /\ (createCalls[o] = 1 /\ createResp[o] = "created") => klass[k] = "success"
           /\ existsResp[o] = "roles_match" => klass[k] = "warning"
           /\ (existsResp[o] = "http_404" \/ (createCalls[o] = 1 /\ createResp[o] = "http_404"))
                => klass[k] = "warning"
    /\ (BatchDone /\ Len(validOrgs) = 2 /\ createResp[1] = "created"
          /\ existsResp[2] = "http_404")
         => <<successCount, warningCount, errorCount>> = <<1, 1, 0>>

C9_Witness ==
    /\ BatchDone /\ Len(validOrgs) = 2 /\ delay = 0 /\ concurrency = 2
    /\ createResp[1] = "created" /\ existsResp[2] = "http_404"
    /\ <<successCount, warningCount, errorCount>> = <<1, 1, 0>>

(* C10: a failed check or create counts as a warning exactly when the      *)
(* remote reported that the target was not found; a failure of any other   *)
(* cause (transport, authentication, unparsable body) counts as an error.  *)
FailedAnswer(o) ==
    IF existsResp[o] \in ExistsFaults THEN existsResp[o]
    ELSE IF createCalls[o] = 1 /\ createResp[o] \in CreateFaults THEN createResp[o]
    ELSE "none"

C10_OnlyTargetNotFoundIsWarning ==
    \A k \in Idx :
      (counted[k] >= 1 /\ FailedAnswer(validOrgs[k]) # "none") =>
        klass[k] = (IF Cause(FailedAnswer(validOrgs[k])) = "target_not_found"
                    THEN "warning" ELSE "error")

(* C11: a run whose batch has completed returns an error exactly when      *)
(* errorCount > 0: warnings alone never make it fail, and successes never  *)
(* hide a failed target.                                                   *)
C11_ErrorIffErrorCount ==
    (pc = "done" /\ result \in {"ok", "error"}) =>
      /\ (result = "error") <=> (errorCount > 0)
      /\ (errorCount = 0 /\ warningCount > 0) => result = "ok"
      /\ (errorCount > 0 /\ successCount > 0) => result = "error"

C11_Witness ==
    /\ pc = "done" /\ result = "error"
    /\ successCount = 1 /\ warningCount = 0 /\ errorCount = 1

C11_WitnessWarningsOnly ==
    /\ pc = "done" /\ result = "ok"
    /\ warningCount = 2 /\ errorCount = 0

(* C12: when the same command is run again against a remote that kept the  *)
(* first run's creations and answers without error, a target whose role    *)
(* the first run created is skipped as already existing (a warning) and no *)
(* create call is issued for it.                                           *)
C12_SecondRunSkipsCreated ==
    \A k \in Idx :
      (prev.ran /\ existsResp[validOrgs[k]] = Stored) =>
        /\ createCalls[validOrgs[k]] = 0
        /\ counted[k] >= 1 => klass[k] = "warning"

(* What does hold: the second run skips the target when the role name was  *)
(* given without surrounding white space.                                  *)
C12_SecondRunSkipsCreatedTrimmedName ==
    roleName = TrimSpace(roleName) => C12_SecondRunSkipsCreated

C12_WitnessTrimmedName ==
    /\ prev.ran /\ BatchDone /\ roleName = RoleDev /\ Len(validOrgs) = 1
    /\ existsResp[1] = Stored /\ klass[1] = "warning" /\ createCalls[1] = 0

NoTargetCall == \A o \in 1..MaxOrgs : existsCalls[o] = 0 /\ createCalls[o] = 0
Returned(r) == pc = "done" /\ result = r
ErrorResults ==
    {"flag_error", "prompt_error", "target_error", "env_error", "csv_error",
     "listing_error", "no_orgs_error", "rolename_error", "baserole_error",
     "catalog_error", "permissions_error", "concurrency_error", "delay_error", "error"}

(* C13: a command line with delay > 0 and concurrency > 1 is rejected when *)
(* the flags are parsed: the run is either still to parse them or has      *)
(* ended with the flag error, and no existence check or create call is     *)
(* ever issued under such a configuration.                                 *)
C13_DelayExcludesConcurrency ==
    (delay > 0 /\ concurrency > 1) =>
      /\ pc = "flags" \/ Returned("flag_error")
      /\ NoTargetCall

C13_Witness ==
    /\ delay = 1 /\ concurrency = 2
    /\ Returned("flag_error")

(* C14: with concurrency below 1 or above 20, or a negative delay, the run *)
(* never asks for confirmation and never starts the batch (no existence    *)
(* check, no create call), and when it has ended it has ended with an      *)
(* error; when the run gets as far as the strategy checks the error is     *)
(* theirs.                                                                 *)
BadStrategy ==
    concurrency < MinConcurrency \/ concurrency > MaxConcurrency \/ delay < 0

C14_StrategyBoundsRejected ==
    BadStrategy =>
      /\ NoTargetCall
      /\ confirm = "unasked"
      /\ pc \notin {"confirm", "seq_loop", "seq_exists", "seq_create", "seq_sleep",
                    "spawn", "wait", "summary"}
      /\ pc = "done" => result \in ErrorResults \ {"error"}

C14_Witness ==
    /\ concurrency = MaxConcurrency + 1 /\ delay = 0
    /\ Returned("concurrency_error")

C14_WitnessZero ==
    /\ concurrency = 0
    /\ Returned("concurrency_error")

C14_WitnessNegativeDelay ==
    /\ delay < 0 /\ concurrency = 1
    /\ Returned("delay_error")

(* C15: a run that ends with a configuration error (flags of one group     *)
(* given together, invalid base role, empty role name, concurrency out of  *)
(* range, negative delay, no organization resolved) has issued no remote   *)
(* call: not the environment check, not a directory query, not the fetch   *)
(* of the permission catalog.                                              *)
ConfigurationErrors ==
    {"flag_error", "baserole_error", "rolename_error", "concurrency_error",
     "delay_error", "no_orgs_error"}

C15_ConfigurationErrorsBeforeRemote ==
    (pc = "done" /\ result \in ConfigurationErrors) => lastRemote = "none"

(* What does hold: the flag groups are checked before anything is called,  *)
(* and no configuration error comes after a call about a target.           *)
C15_FlagErrorBeforeRemote ==
    /\ Returned("flag_error") => lastRemote = "none"
    /\ (pc = "done" /\ result \in ConfigurationErrors) => NoTargetCall

(* The strings of seq that are not empty, each once, in the order of their *)
(* first occurrence: res is that list.                                     *)
RECURSIVE Flat(_)
Flat(pages) == IF pages = <<>> THEN <<>> ELSE Head(pages) \o Flat(Tail(pages))

Normalized(seq) == [j \in 1..Len(seq) |-> ToLower(TrimSpace(seq[j]))]
Occurrences(seq, x) == {j \in 1..Len(seq) : seq[j] = x}
FirstAt(seq, x) ==
    CHOOSE j \in Occurrences(seq, x) : \A l \in Occurrences(seq, x) : j <= l

FirstSeen(res, seq) ==
    /\ \A j \in 1..Len(res) : res[j] # <<>> /\ Occurrences(seq, res[j]) # {}
    /\ \A j \in 1..Len(seq) : seq[j] # <<>> => \E l \in 1..Len(res) : res[l] = seq[j]
    /\ \A j \in 1..(Len(res) - 1) : FirstAt(seq, res[j]) < FirstAt(seq, res[j + 1])

(* C16: the listing issues one query per page and none after the page      *)
(* whose hasNextPage is false: while it runs, the queries made are the     *)
(* pages taken and more pages remain; when it has returned, the queries    *)
(* made are the pages of the directory (one for an empty directory) and    *)
(* the result is the normalized logins of all pages, each once, in page    *)
(* order.  Pages of 100, 100 and 37 different logins give 237 identifiers  *)
(* after three queries.                                                    *)
C16_ListingUntilExhaustion ==
    /\ pc = "fetch" =>
         /\ queries = CursorPosition(formatCursor(cursor))
         /\ queries = 0 \/ queries < Len(target.directory)
         /\ orgs = Normalized(Flat(SubSeq(target.directory, 1, queries)))
    /\ (pc = "orgs" /\ target.mode = "all") =>
         /\ queries = (IF target.directory = <<>> THEN 1 ELSE Len(target.directory))
         /\ FirstSeen(orgs, Normalized(Flat(target.directory)))
    /\ (pc = "orgs" /\ target.directory = BigDirectory) =>
         queries = 3 /\ Len(orgs) = 237

C16_Witness ==
    /\ pc = "orgs" /\ target.directory = BigDirectory
    /\ queries = 3 /\ Len(orgs) = 237

C16_WitnessDuplicates ==
    /\ pc = "orgs" /\ target.directory = <<<<OrgB, OrgB>>, <<OrgA>>, <<OrgALower>>>>
    /\ queries = 3 /\ orgs = <<ToLower(OrgB), OrgALower>>

(* C17: when a page request of the listing fails, by transport or by an    *)
(* unparsable response, on the first page or after pages that succeeded,   *)
(* the listing returns the error and no identifiers, and the run ends      *)
(* there: no target list is taken and no target is processed.              *)
C17_FailedPageAbortsListing ==
    Returned("listing_error") =>
      /\ orgs = <<>>
      /\ validOrgs = <<>>
      /\ confirm = "unasked"
      /\ NoTargetCall

C17_Witness ==
    /\ Returned("listing_error")
    /\ Len(target.directory) = 3 /\ cursor = CursorTo(Itoa(2)) /\ queries = 3
    /\ orgs = <<>>

(* C18: what the CSV resolver returns for a readable file is the cells of  *)
(* the file trimmed and lower-cased, without the blank ones, each once, in *)
(* the order of first occurrence reading record by record; the cells OrgA, *)
(* orga, OrgB give orga, orgb.                                             *)
C18_CSVNormalizedFirstSeen ==
    (pc = "orgs" /\ target.mode = "csv") =>
      /\ FirstSeen(orgs, Normalized(Flat(target.records)))
      /\ Flat(target.records) = <<OrgA, OrgALower, OrgB>> => orgs = <<OrgALower, OrgBLower>>

C18_Witness ==
    /\ pc = "orgs" /\ target.mode = "csv"
    /\ target.records = <<<<OrgA>>, <<OrgALower>>, <<OrgB>>>>
    /\ orgs = <<OrgALower, OrgBLower>>

C18_WitnessBlanksAndPadding ==
    /\ pc = "orgs" /\ target.mode = "csv"
    /\ target.records = <<<<Blank, OrgB>>, <<OrgAPadded>>>>
    /\ orgs = <<OrgBLower, OrgALower>>

(* C19: when the permissions flag names a permission that is not in the    *)
(* catalog fetched for the first target, resolving the permissions ends    *)
(* the run with an error; a run ended that way has asked for no            *)
(* confirmation and issued no existence check and no create call.          *)
NamedPermissions ==
    {TrimSpace(Split(permFlag)[j]) : j \in 1..Len(Split(permFlag))} \ {<<>>}

FlagNamesUnknown ==
    \E name \in NamedPermissions : \A j \in 1..Len(permissions) : permissions[j] # name

C19_UnknownPermissionFailsFast ==
    /\ [][(pc = "permissions" /\ FlagNamesUnknown) =>
            (pc' = "done" /\ result' = "permissions_error")]_vars
    /\ [](Returned("permissions_error") => (NoTargetCall /\ confirm = "unasked"))

C19_Witness ==
    /\ Returned("permissions_error")
    /\ permFlag = PermFlagBogus
    /\ permissions = <<PermReadCode, PermWriteCode>>
    /\ Len(validOrgs) = 2

(* C20: an existence check or a create call is issued only after the user  *)
(* has accepted the confirmation prompt; when the user declines, the run   *)
(* ends there and returns no error, and no call about a target is made.    *)
C20_NothingBeforeConfirmation ==
    /\ confirm # "yes" =>
         /\ NoTargetCall
         /\ \A k \in 1..MaxOrgs : wpc[k] = "idle" /\ counted[k] = 0
         /\ pc \notin {"seq_loop", "seq_exists", "seq_create", "seq_sleep",
                       "spawn", "wait", "summary"}
    /\ confirm = "no" => Returned("cancelled")
    /\ Returned("cancelled") => confirm = "no"

C20_Witness ==
    /\ confirm = "no" /\ Returned("cancelled")
    /\ Len(validOrgs) = 2 /\ NoTargetCall

C20_WitnessAccepted ==
    /\ confirm = "yes" /\ existsCalls[1] = 1 /\ createCalls[1] = 1

(* C21: when the resolution returns a list of no identifiers (a CSV file   *)
(* of blank cells, an enterprise without organizations) the next step of   *)
(* the run is to return an error, and a run ended that way has fetched no  *)
(* permission catalog, taken no target list, asked for no confirmation and *)
(* issued no call about a target.                                          *)
C21_EmptyResolutionFails ==
    /\ [][(pc = "orgs" /\ Len(orgs) = 0) =>
            (pc' = "done" /\ result' = "no_orgs_error")]_vars
    /\ [](Returned("no_orgs_error") =>
            /\ validOrgs = <<>> /\ permissions = <<>>
            /\ lastRemote # "permissions"
            /\ confirm = "unasked"
            /\ NoTargetCall)

C21_Witness ==
    /\ Returned("no_orgs_error")
    /\ target = CSVTarget("flag", "readable", <<<<Blank>>>>)
    /\ lastRemote = "meta"

C21_WitnessEmptyEnterprise ==
    /\ Returned("no_orgs_error")
    /\ target = AllTarget("flag", <<>>)
    /\ lastRemote = "graphql" /\ queries = 1

(* C22: in both strategies no target gets a second status line or a second *)
(* progress tick; whenever no goroutine is between its status line and its *)
(* unlock, the ticks, the status lines and the three counters together are *)
(* the same number, each target having had all three effects or none; that *)
(* number is never more than the resolved targets, and is all of them when *)
(* the batch has finished.                                                 *)
C22_OneLineOneTickPerTarget ==
    /\ \A k \in 1..MaxOrgs : printed[k] <= 1 /\ ticked[k] <= 1
    /\ progress <= Len(validOrgs) /\ lines <= Len(validOrgs) /\ Sum3 <= Len(validOrgs)
    /\ (\A k \in 1..MaxOrgs : ~InUnit(k)) =>
         /\ progress = lines /\ lines = Sum3
         /\ \A k \in 1..MaxOrgs : printed[k] = ticked[k] /\ ticked[k] = counted[k]
    /\ BatchDone => progress = Len(validOrgs)

C22_Witness ==
    /\ delay = 0 /\ concurrency = 2 /\ Len(validOrgs) = 2 /\ pc = "wait"
    /\ wpc[1] = "create" /\ wpc[2] = "release"
    /\ progress = 1 /\ lines = 1 /\ warningCount = 1

C22_WitnessSequential ==
    /\ delay = 1 /\ Len(validOrgs) = 2 /\ BatchDone
    /\ progress = 2 /\ lines = 2 /\ Sum3 = 2

(* C23: the replication command, run, gives the options of the run it was  *)
(* built after: no error and no stray argument, the same host, the same    *)
(* one target mode with the enterprise only for --all-orgs, the same role  *)
(* name and description, a base role and a permission list that resolve to *)
(* the ones used, and the same delay and concurrency; the command carries  *)
(* --delay exactly when delay > 0 and --concurrency exactly when           *)
(* concurrency > 1.                                                        *)
SameConfiguration(o, base, perms, f) ==
    /\ f.err = "none" /\ f.args = <<>>
    /\ f.hostname = o.hostname
    /\ f.org = o.org /\ f.allOrgs = o.allOrgs /\ f.orgsCSVPath = o.orgsCSVPath
    /\ f.enterprise = o.enterprise
    /\ f.enterprise # <<>> => f.allOrgs
    /\ f.roleName = o.roleName /\ f.roleDesc = o.roleDesc
    /\ resolveBaseRole(f.baseRole) = [role |-> base, err |-> "none"]
    /\ resolvePermissions(f.permissions, Catalog("perms_two"), <<>>)
         = [selected |-> perms, err |-> "none"]
    /\ f.delay = o.delay /\ f.concurrency = o.concurrency

StrategyFlagsAsUsed ==
    /\ Contains(replication.cmd, FlagDelay) <=> replication.opts.delay > 0
    /\ Contains(replication.cmd, FlagConcurrency) <=> replication.opts.concurrency > 1

C23_ReplicationRoundTrip ==
    /\ pc \in {"tipped", "replicated"} => StrategyFlagsAsUsed
    /\ pc = "replicated" =>
         SameConfiguration(replication.opts, replication.baseRole,
                           replication.permissions, replication.flags)

(* What does hold: the round trip of the options whose role name and       *)
(* description have no apostrophe and whose CSV path has no blank.         *)
PlainValues ==
    /\ ~Contains(replication.opts.roleName, Quote)
    /\ ~Contains(replication.opts.roleDesc, Quote)
    /\ ~Contains(replication.opts.orgsCSVPath, Space)

C23_RoundTripOfPlainValues ==
    PlainValues => C23_ReplicationRoundTrip

C23_WitnessPlainValues ==
    /\ pc = "replicated"
    /\ replication.opts.roleName = RoleWithSpace
    /\ replication.opts.roleDesc = DescWithSpaces
    /\ replication.opts.allOrgs /\ replication.opts.delay = 1
    /\ replication.flags.roleDesc = DescWithSpaces

(* C24: every identifier that resolveOrganizations returns and runCreate   *)
(* takes as a target of the batch is not empty, and is its own lower-cased *)
(* and trimmed form, whichever way the targets were named: one             *)
(* organization by flag or by prompt, a CSV file, the enterprise.          *)
IsNormalized(org) == org = ToLower(TrimSpace(org))

C24_TargetsNonEmptyNormalized ==
    pc = "orgs" => \A j \in 1..Len(orgs) : orgs[j] # <<>> /\ IsNormalized(orgs[j])

(* What does hold: the identifiers are normalized in every mode, and none  *)
(* is empty unless the one organization was named by the --org flag.       *)
C24_EmptyOnlyFromOrgFlag ==
    pc = "orgs" =>
      /\ \A j \in 1..Len(orgs) : IsNormalized(orgs[j])
      /\ (target.mode = "org" /\ target.via # "prompt") \/ \A j \in 1..Len(orgs) : orgs[j] # <<>>

C24_WitnessBlankOrgFlag ==
    /\ pc = "orgs" /\ orgs = << <<>> >>
    /\ target = OrgTarget("flag", Blank)

(* C25: while the listing runs, its first query carries the null cursor    *)
(* and every later one carries, quoted, the end cursor of the response     *)
(* before it and never null again, whatever end cursor the directory gave; *)
(* so the listing makes no more queries than the directory has pages, and  *)
(* ends.                                                                   *)
CarriesPrecedingEndCursor ==
    /\ formatCursor(cursor) # Null
    /\ formatCursor(cursor) = DoubleQuote \o cursor.value \o DoubleQuote

C25_CursorFollowsResponses ==
    pc = "fetch" =>
      /\ queries = 0 => (cursor = NilCursor /\ formatCursor(cursor) = Null)
      /\ queries > 0 => CarriesPrecedingEndCursor
      /\ queries = 0 \/ queries < Len(target.directory)

(* What does hold: the same for the directories that give an end cursor    *)
(* with every page that has a next one.                                    *)
C25_GivenCursorsFollowResponses ==
    (pc = "fetch" /\ target.endCursors = "given") =>
      /\ queries = 0 => (cursor = NilCursor /\ formatCursor(cursor) = Null)
      /\ queries > 0 => CarriesPrecedingEndCursor
      /\ queries = 0 \/ queries < Len(target.directory)

C25_WitnessGivenCursor ==
    /\ pc = "fetch" /\ target.endCursors = "given"
    /\ Len(target.directory) = 3 /\ queries = 2
    /\ formatCursor(cursor) = <<"\"", "2", "\"">>

(* The first page asked for again and again: an empty end cursor is sent   *)
(* as null.                                                                *)
C25_WitnessNullAgain ==
    /\ pc = "fetch" /\ target.endCursors = "empty"
    /\ Len(target.directory) = 2 /\ queries = MaxQueries
    /\ cursor = CursorTo(<<>>) /\ formatCursor(cursor) = Null
    /\ orgs = [j \in 1..MaxQueries |-> OrgALower]

(* C26: in the concurrent strategy the goroutine that holds the mutex is   *)
(* between its mu.Lock() and its mu.Unlock() and so is never one whose     *)
(* roleExists or createCustomRole call is in progress; a goroutine comes   *)
(* to release its slot only by its mu.Unlock(), and does not hold the      *)
(* mutex when it releases the slot or after; and while the batch runs,     *)
(* spawning or waiting, some step of it can always be taken.               *)
InRemoteCall(k) == wpc[k] \in {"exists", "create"}
HoldsMutex(k) == mu = k
BatchRunning == pc \in {"spawn", "wait"}

C26_MutexNeverAcrossRemoteCall ==
    /\ [](\A k \in 1..MaxOrgs :
            /\ HoldsMutex(k) <=> wpc[k] \in {"line", "store", "unlock"}
            /\ InRemoteCall(k) => ~HoldsMutex(k)
            /\ wpc[k] \in {"release", "wgdone", "exited"} => ~HoldsMutex(k))
    /\ [][\A k \in 1..MaxOrgs :
            /\ (wpc[k] # "release" /\ wpc'[k] = "release") =>
                  (wpc[k] = "unlock" /\ HoldsMutex(k) /\ mu' = 0)
            /\ (wpc[k] = "release" /\ wpc'[k] # "release") =>
                  (~HoldsMutex(k) /\ semaphore' = semaphore - 1)]_vars
    /\ [](BatchRunning => ENABLED Scheduled)

C26_Witness ==
    /\ pc = "wait" /\ concurrency = 2
    /\ HoldsMutex(1) /\ wpc[1] = "store"
    /\ InRemoteCall(2) /\ wpc[2] = "create"

C26_WitnessWaitingForMutex ==
    /\ pc = "spawn" /\ next = 2 /\ concurrency = 1
    /\ wpc[1] = "release" /\ mu = 0 /\ semaphore = 1

(* C27: the identifiers a run resolves, from the flag, a CSV file or the   *)
(* enterprise listing, are all different, so the targets of the batch are  *)
(* different organizations; within the run each organization gets at most  *)
(* one existence check and at most one create call, and no two goroutines  *)
(* are ever in a create call for the same organization.                    *)
NoRepeats(seq) == \A j, l \in 1..Len(seq) : j # l => seq[j] # seq[l]

C27_NoTwoPipelinesOnOneTarget ==
    /\ pc = "orgs" => NoRepeats(orgs)
    /\ NoRepeats(validOrgs)
    /\ \A o \in 1..MaxOrgs : existsCalls[o] <= 1 /\ createCalls[o] <= 1
    /\ \A k, l \in 1..Len(validOrgs) :
         (k # l /\ wpc[k] = "create" /\ wpc[l] = "create") => validOrgs[k] # validOrgs[l]

C27_Witness ==
    /\ pc = "wait" /\ concurrency = 2 /\ validOrgs = <<1, 2>>
    /\ wpc = [k \in 1..MaxOrgs |-> IF k <= 2 THEN "create" ELSE "idle"]
    /\ createCalls[1] = 1 /\ createCalls[2] = 1

C27_WitnessRepeatedCells ==
    /\ pc = "orgs" /\ target.mode = "csv"
    /\ target.records = <<<<OrgA, OrgB>>, <<OrgALower>>>>
    /\ orgs = <<OrgALower, OrgBLower>>

C27_WitnessRepeatedLogins ==
    /\ pc = "orgs" /\ target.mode = "all"
    /\ target.directory = <<<<OrgA>>, <<OrgALower>>>>
    /\ queries = 2 /\ orgs = <<OrgALower>>

====
